---- MODULE Spec2Model ----
(***************************************************************************)
(* Folder/path template engine of bifrost (src/domains/folder_structure).  *)
(*                                                                         *)
(* Strings are sequences of one-character strings, so that tokenizing,     *)
(* str.format and the synthesized regular expressions are computed on the  *)
(* characters the way the Python code computes them.  The definitions      *)
(* describe the bodies of the functions as written; every imported name    *)
(* denotes the class the source declares.                                  *)
(***************************************************************************)
EXTENDS Integers, Sequences, FiniteSets, TLC

VARIABLES
    tmpl,   \* formatting specification: the FolderTemplate under test
    fres,   \* formatting specification: the last format call and its outcome
    repo,   \* service: the repository's studio mappings, by studio name
    bus,    \* service: the events published on the event bus, in order
    call,   \* service: the call in progress (its inputs and its outcome);
            \* writers specification: the call of each writer and its step
    svc,    \* service: the FolderStructureService object's own fields
    heap,   \* the FolderTemplate objects, parents by reference
    agg,    \* aggregates: the aggregate under test (its entity and its events)
    template_groups,  \* service: the repository's template groups, by name
    files             \* YAML repository: the documents written, by file name
                      \* (writers specification: their text, as lines)

vars == <<tmpl, fres, repo, bus, call, svc, heap, agg, template_groups, files>>

(***************************************************************************)
(* Generic helpers                                                         *)
(***************************************************************************)
None == [some |-> FALSE]

Some(v) == [some |-> TRUE, val |-> v]

Min(S) == CHOOSE x \in S : \A y \in S : x <= y

Tail2(s, i) == SubSeq(s, i, Len(s))

RECURSIVE Flatten(_)
Flatten(ss) == IF ss = <<>> THEN <<>> ELSE Head(ss) \o Flatten(Tail(ss))

SeqsUpTo(S, n) == UNION {[1..k -> S] : k \in 0..n}

(***************************************************************************)
(* Characters                                                              *)
(***************************************************************************)
UpperCase == {"A", "B", "C", "D", "E", "F", "G", "H", "I", "J", "K", "L", "M",
              "N", "O", "P", "Q", "R", "S", "T", "U", "V", "W", "X", "Y", "Z"}

Digits == {"0", "1", "2", "3", "4", "5", "6", "7", "8", "9"}

\* [A-Z_]
IsNameStart(c) == c \in UpperCase \cup {"_"}

\* [A-Z0-9_]
IsNameChar(c) == c \in UpperCase \cup Digits \cup {"_"}

(***************************************************************************)
(* value_objects.py                                                        *)
(***************************************************************************)
\* TemplateVariable.__post_init__: re.match(r'^[A-Z_][A-Z0-9_]*$', name); the
\* `$` of re matches at the end of the string and before a newline that ends it
ValidVariableName(n) ==
    LET m == IF Len(n) >= 1 /\ n[Len(n)] = "\n" THEN SubSeq(n, 1, Len(n) - 1) ELSE n
    IN  /\ Len(m) >= 1
        /\ IsNameStart(m[1])
        /\ \A k \in 2..Len(m) : IsNameChar(m[k])

\* TemplateVariable._validate_value on a str value (every value of the model
\* is a str; validation_pattern is None in every variable that is enumerated)
ValidateValue(var, value) ==
    /\ (var.allowed_values # {} => value \in var.allowed_values)
    /\ var.variable_type # "INTEGER"
    /\ var.variable_type # "BOOLEAN"
    /\ (var.variable_type = "ENUM" => var.allowed_values # {})

\* TemplateVariable(name=n): the dataclass defaults
TemplateVariable(n) ==
    [name |-> n, variable_type |-> "STRING", required |-> TRUE,
     default_value |-> None, allowed_values |-> {}]

\* PathToken (the position field is written by the parser and read nowhere)
PathToken(type, content) == [token_type |-> type, content |-> content]

\* TemplatePath.__post_init__: the names of the VARIABLE tokens
TemplatePathVariables(tokens) ==
    {tokens[i].content : i \in {k \in 1..Len(tokens) : tokens[k].token_type = "VARIABLE"}}

(***************************************************************************)
(* entities.py: FolderTemplate                                             *)
(***************************************************************************)
\* re.search(r'{([A-Z_][A-Z0-9_]*)}', s) matches at i, ending at j
PlaceholderAt(s, i, j) ==
    /\ i + 2 <= j /\ j <= Len(s)
    /\ s[i] = "{" /\ s[j] = "}"
    /\ IsNameStart(s[i + 1])
    /\ \A k \in (i + 2)..(j - 1) : IsNameChar(s[k])

PlaceholderStarts(s) == {i \in 1..Len(s) : \E j \in 1..Len(s) : PlaceholderAt(s, i, j)}

PlaceholderEnd(s, i) == CHOOSE j \in 1..Len(s) : PlaceholderAt(s, i, j)

\* FolderTemplate._parse_template: the token list
RECURSIVE ParseTemplate(_)
ParseTemplate(remaining) ==
    IF remaining = <<>> THEN <<>>
    ELSE IF PlaceholderStarts(remaining) = {}
         THEN <<PathToken("LITERAL", remaining)>>
         ELSE LET i == Min(PlaceholderStarts(remaining))
                  j == PlaceholderEnd(remaining, i)
                  lit == IF i > 1
                         THEN <<PathToken("LITERAL", SubSeq(remaining, 1, i - 1))>>
                         ELSE <<>>
              IN  lit \o <<PathToken("VARIABLE", SubSeq(remaining, i + 1, j - 1))>>
                      \o ParseTemplate(Tail2(remaining, j + 1))

\* FolderTemplate.__init__: the supplied variables, then a default variable
\* for every parsed name that was not supplied
FolderTemplate(name, template, variables, parent, mode) ==
    LET parsed == ParseTemplate(template)
        names  == DOMAIN variables \cup TemplatePathVariables(parsed)
    IN  [name |-> name,
         raw_template |-> template,
         parsed_template |-> parsed,
         variables |-> [n \in names |->
                          IF n \in DOMAIN variables THEN variables[n]
                          ELSE TemplateVariable(n)],
         parent |-> parent,
         inheritance_mode |-> mode]

\* FolderTemplate.validate
TemplateValid(t) ==
    \A n \in TemplatePathVariables(t.parsed_template) : n \in DOMAIN t.variables

\* a get_effective_template that trims the separators at the join (C10
\* tells it from EffectiveTemplate)
RECURSIVE EffectiveTemplateTrimming(_, _, _)
EffectiveTemplateTrimming(h, id, depth) ==
    IF depth > Len(h) THEN [kind |-> "RecursionError"]
    ELSE IF ~h[id].parent.some \/ h[id].inheritance_mode # "EXTEND"
    THEN [kind |-> "ok", path |-> h[id].raw_template]
    ELSE LET parent_template == EffectiveTemplateTrimming(h, h[id].parent.val, depth + 1)
             raw == h[id].raw_template
         IN IF parent_template.kind # "ok" THEN parent_template
            ELSE [kind |-> "ok",
                  path |-> (IF parent_template.path # <<>>
                               /\ parent_template.path[Len(parent_template.path)] = "/"
                            THEN SubSeq(parent_template.path, 1,
                                        Len(parent_template.path) - 1)
                            ELSE parent_template.path)
                           \o <<"/">>
                           \o (IF raw # <<>> /\ raw[1] = "/" THEN Tail(raw) ELSE raw)]

\* FolderTemplate.get_effective_template on the object h[id]; the parent is
\* a reference to another object of h.  A parent chain that never ends makes
\* the recursion exceed the interpreter's limit (RecursionError); a chain
\* that ends is at most Len(h) long.
RECURSIVE EffectiveTemplate(_, _, _)
EffectiveTemplate(h, id, depth) ==
    IF depth > Len(h) THEN [kind |-> "RecursionError"]
    ELSE IF ~h[id].parent.some \/ h[id].inheritance_mode = "NONE"
    THEN [kind |-> "ok", path |-> h[id].raw_template]
    ELSE IF h[id].inheritance_mode = "OVERRIDE"
    THEN [kind |-> "ok", path |-> h[id].raw_template]
    ELSE IF h[id].inheritance_mode = "EXTEND"
    THEN LET parent_template == EffectiveTemplate(h, h[id].parent.val, depth + 1)
         IN IF parent_template.kind # "ok" THEN parent_template
            ELSE [kind |-> "ok",
                  path |-> parent_template.path \o <<"/">> \o h[id].raw_template]
    ELSE [kind |-> "ok", path |-> h[id].raw_template]

GetEffectiveTemplate(h, id) == EffectiveTemplate(h, id, 1)

\* string.Formatter().parse / str.format: the markup iterator of CPython
\* (MarkupIterator_next, parse_field) on a string without ':', '!', '[' or
\* '.'.  The result is the list of (literal, field-or-None), or an error
\* (ValueError: single brace, unexpected '{', missing '}').
MarkupError == [error |-> TRUE]

MarkupCons(item, rest) ==
    IF rest.error THEN MarkupError
    ELSE [error |-> FALSE, items |-> <<item>> \o rest.items]

RECURSIVE MarkupParse(_)
MarkupParse(s) ==
    IF s = <<>> THEN [error |-> FALSE, items |-> <<>>]
    ELSE LET braces == {i \in 1..Len(s) : s[i] \in {"{", "}"}}
         IN IF braces = {}
            THEN [error |-> FALSE, items |-> <<[literal |-> s, field |-> None]>>]
            ELSE LET i == Min(braces)
                     c == s[i]
                     at_end == (i = Len(s))
                 IN IF c = "}" /\ (at_end \/ s[i + 1] # "}") THEN MarkupError
                    ELSE IF at_end THEN MarkupError
                    ELSE IF s[i + 1] = c
                    THEN MarkupCons([literal |-> SubSeq(s, 1, i), field |-> None],
                                    MarkupParse(Tail2(s, i + 2)))
                    ELSE LET stops == {j \in (i + 1)..Len(s) : s[j] \in {"{", "}"}}
                         IN IF stops = {} THEN MarkupError
                            ELSE IF s[Min(stops)] = "{" THEN MarkupError
                            ELSE MarkupCons(
                                   [literal |-> SubSeq(s, 1, i - 1),
                                    field |-> Some(SubSeq(s, i + 1, Min(stops) - 1))],
                                   MarkupParse(Tail2(s, Min(stops) + 1)))

MarkupFields(items) ==
    {items[i].field.val : i \in {k \in 1..Len(items) : items[k].field.some}}

RECURSIVE MarkupRender(_, _)
MarkupRender(items, args) ==
    IF items = <<>> THEN <<>>
    ELSE Head(items).literal
           \o (IF Head(items).field.some THEN args[Head(items).field.val] ELSE <<>>)
           \o MarkupRender(Tail(items), args)

\* the outcomes of a call
Ok(path) == [kind |-> "ok", path |-> path]

Raised(kind, about) == [kind |-> kind, about |-> about]

\* format_args with the default taking precedence over the supplied binding
\* (C1 as amended tells it from FormatArgs)
FormatArgsDefaultFirst(t, kwargs) ==
    LET withDefault == {n \in DOMAIN t.variables : t.variables[n].default_value.some}
    IN  [n \in DOMAIN kwargs \cup withDefault |->
           IF n \in withDefault THEN t.variables[n].default_value.val ELSE kwargs[n]]

\* format_args of FolderTemplate.format (lines 222-238)
FormatArgs(t, kwargs) ==
    LET withDefault == {n \in DOMAIN t.variables :
                          n \notin DOMAIN kwargs /\ t.variables[n].default_value.some}
    IN  [n \in DOMAIN kwargs \cup withDefault |->
           IF n \in DOMAIN kwargs THEN kwargs[n] ELSE t.variables[n].default_value.val]

\* lines 240-262: the try block; every exception other than KeyError that is
\* raised inside it, the VariableResolutionError of line 251 included, leaves
\* as InvalidTemplateError
FormatTry(t, args) ==
    LET parsed == MarkupParse(t.raw_template)
    IN  IF parsed.error THEN {Raised("InvalidTemplateError", <<>>)}
        ELSE IF MarkupFields(parsed.items) \ DOMAIN args # {}
        THEN {Raised("InvalidTemplateError", n) :
                 n \in MarkupFields(parsed.items) \ DOMAIN args}
        ELSE IF <<>> \in MarkupFields(parsed.items)
        THEN {Raised("InvalidTemplateError", <<>>)}
        ELSE {Ok(MarkupRender(parsed.items, args))}

\* FolderTemplate.format: the set of outcomes the call can have.  The
\* variables dict is walked in insertion order, which the caller's dict and a
\* frozenset decide, so any missing (resp. invalid) variable can be the one
\* that is reported.
Format(t, kwargs) ==
    LET missing == {n \in DOMAIN t.variables :
                      /\ t.variables[n].required
                      /\ n \notin DOMAIN kwargs
                      /\ ~t.variables[n].default_value.some}
        invalid == {n \in DOMAIN t.variables \cap DOMAIN kwargs :
                      ~ValidateValue(t.variables[n], kwargs[n])}
    IN  IF missing # {}
        THEN {Raised("VariableResolutionError", n) : n \in missing}
        ELSE IF invalid # {}
        THEN {Raised("ValueError", n) : n \in invalid}
        ELSE FormatTry(t, FormatArgs(t, kwargs))

(***************************************************************************)
(* enums.py                                                                *)
(***************************************************************************)
EntityType == {"ASSET", "SHOT", "SEQUENCE", "EPISODE", "SERIES", "PROJECT"}

DataType == {"WORK", "PUBLISHED", "CACHE", "PUBLISHED_CACHE", "RENDER", "DELIVERABLE"}

(***************************************************************************)
(* entities.py: StudioMapping                                              *)
(***************************************************************************)
SlotFields == {"asset_published_path", "asset_work_path", "shot_published_path",
               "shot_work_path", "render_path", "cache_path",
               "asset_published_cache_path", "shot_published_cache_path",
               "deliverable_path"}

\* StudioMapping(name=n): every slot None
StudioMapping(n) == [name |-> n, slots |-> [f \in SlotFields |-> None]]

\* StudioMapping.get_template_for_entity
GetTemplateForEntity(m, entity_type, data_type) ==
    IF entity_type = "ASSET" THEN
        CASE data_type = "PUBLISHED" -> m.slots["asset_published_path"]
          [] data_type = "WORK" -> m.slots["asset_work_path"]
          [] data_type = "RENDER" -> m.slots["render_path"]
          [] data_type = "CACHE" -> m.slots["cache_path"]
          [] data_type = "PUBLISHED_CACHE" -> m.slots["asset_published_cache_path"]
          [] data_type = "DELIVERABLE" -> m.slots["deliverable_path"]
          [] OTHER -> None
    ELSE IF entity_type = "SHOT" THEN
        CASE data_type = "PUBLISHED" -> m.slots["shot_published_path"]
          [] data_type = "WORK" -> m.slots["shot_work_path"]
          [] data_type = "RENDER" -> m.slots["render_path"]
          [] data_type = "CACHE" -> m.slots["cache_path"]
          [] data_type = "PUBLISHED_CACHE" -> m.slots["shot_published_cache_path"]
          [] data_type = "DELIVERABLE" -> m.slots["deliverable_path"]
          [] OTHER -> None
    ELSE None

\* StudioMapping.set_template_for_entity
SetTemplateForEntity(m, entity_type, data_type, template) ==
    IF entity_type = "ASSET" THEN
        CASE data_type = "PUBLISHED" -> [m EXCEPT !.slots["asset_published_path"] = template]
          [] data_type = "WORK" -> [m EXCEPT !.slots["asset_work_path"] = template]
          [] data_type = "RENDER" -> [m EXCEPT !.slots["render_path"] = template]
          [] data_type = "CACHE" -> [m EXCEPT !.slots["cache_path"] = template]
          [] data_type = "PUBLISHED_CACHE" -> [m EXCEPT !.slots["asset_published_cache_path"] = template]
          [] data_type = "DELIVERABLE" -> [m EXCEPT !.slots["deliverable_path"] = template]
          [] OTHER -> m
    ELSE IF entity_type = "SHOT" THEN
        CASE data_type = "PUBLISHED" -> [m EXCEPT !.slots["shot_published_path"] = template]
          [] data_type = "WORK" -> [m EXCEPT !.slots["shot_work_path"] = template]
          [] data_type = "RENDER" -> [m EXCEPT !.slots["render_path"] = template]
          [] data_type = "CACHE" -> [m EXCEPT !.slots["cache_path"] = template]
          [] data_type = "PUBLISHED_CACHE" -> [m EXCEPT !.slots["shot_published_cache_path"] = template]
          [] data_type = "DELIVERABLE" -> [m EXCEPT !.slots["deliverable_path"] = template]
          [] OTHER -> m
    ELSE m

(***************************************************************************)
(* entities.py: TemplateGroup; aggregates.py: TemplateGroupAggregate       *)
(*                                                                         *)
(* The templates of a group are FolderTemplate objects on the heap; the    *)
(* group's dict maps a name to the object, and a parent is a reference to  *)
(* an object.  A heap slot that the group no longer reaches is blank and   *)
(* is taken by the next object that is constructed.                        *)
(***************************************************************************)
\* TemplateGroup(name=n): no templates
TemplateGroup(n) == [name |-> n, templates |-> <<>>]

\* TemplateGroupAggregate.__init__
TemplateGroupAggregate(template_group) ==
    [template_group |-> template_group, events |-> <<>>]

NoAggregate == [events |-> <<>>]

\* events.py
TemplateCreated(group_name, template_name) ==
    [type |-> "TemplateCreated", group_name |-> group_name,
     template_name |-> template_name]

TemplateUpdated(group_name, template_name) ==
    [type |-> "TemplateUpdated", group_name |-> group_name,
     template_name |-> template_name]

TemplateDeleted(group_name, template_name) ==
    [type |-> "TemplateDeleted", group_name |-> group_name,
     template_name |-> template_name]

\* a blank heap slot
Blank == [name |-> "", blank |-> TRUE]

\* the objects that the dict of the group reaches, through parents
RECURSIVE ReachableFrom(_, _, _)
ReachableFrom(h, ids, fuel) ==
    LET next == ids \cup {h[i].parent.val : i \in {k \in ids : h[k].parent.some}}
    IN  IF fuel = 0 \/ next = ids THEN ids ELSE ReachableFrom(h, next, fuel - 1)

Reachable(h, templates) ==
    ReachableFrom(h, {templates[n] : n \in DOMAIN templates}, Len(h))

\* the slot of a newly constructed object
NewObject(h, templates) ==
    LET free == (1..Len(h)) \ Reachable(h, templates)
    IN  IF free # {} THEN Min(free) ELSE Len(h) + 1

Allocate(h, id, object) ==
    IF id = Len(h) + 1 THEN Append(h, object) ELSE [h EXCEPT ![id] = object]

Collect(h, templates) ==
    [i \in 1..Len(h) |-> IF i \in Reachable(h, templates) THEN h[i] ELSE Blank]

\* dict(templates) with templates[name] = id
WithTemplate(templates, name, id) ==
    [n \in DOMAIN templates \cup {name} |-> IF n = name THEN id ELSE templates[n]]

\* del templates[name]
WithoutTemplate(templates, name) ==
    [n \in DOMAIN templates \ {name} |-> templates[n]]

\* the outcome of an aggregate call: the heap and the aggregate after it, and
\* what the call returned or raised
Outcome(h, a, out) == [heap |-> h, agg |-> a, out |-> out]

Returned(id) == [kind |-> "ok", id |-> id]

\* Python's truth value of an Optional[str] argument
Truthy(parent_name) == parent_name.some /\ parent_name.val # ""

\* TemplateGroupAggregate.create_template
CreateTemplate(h, a, name, template, variables, parent_name, inheritance_mode) ==
    LET g == a.template_group
    IN  IF name \in DOMAIN g.templates
        THEN Outcome(h, a, Raised("ValueError", name))
        ELSE IF Truthy(parent_name) /\ parent_name.val \notin DOMAIN g.templates
        THEN Outcome(h, a, Raised("KeyError", parent_name.val))
        ELSE LET parent == IF Truthy(parent_name)
                           THEN Some(g.templates[parent_name.val]) ELSE None
                 template_entity ==
                     FolderTemplate(name, template,
                                    IF variables.some THEN variables.val ELSE <<>>,
                                    parent, inheritance_mode)
                 id == NewObject(h, g.templates)
             IN  IF ~TemplateValid(template_entity)
                 THEN Outcome(h, a, Raised("InvalidTemplateError", template))
                 ELSE Outcome(Allocate(h, id, template_entity),
                              [a EXCEPT !.template_group.templates =
                                            WithTemplate(@, name, id),
                                        !.events =
                                            Append(@, TemplateCreated(g.name, name))],
                              Returned(id))

\* update_template, lines 162-174: the variables are cleared, the supplied
\* ones added, and a default variable added for every parsed name left
ReplaceVariables(variables, parsed) ==
    [n \in DOMAIN variables \cup TemplatePathVariables(parsed) |->
        IF n \in DOMAIN variables THEN variables[n] ELSE TemplateVariable(n)]

\* TemplateGroupAggregate.update_template: the object of the group is
\* assigned field by field, and a raise leaves what was assigned before it
UpdateTemplate(h, a, name, template, variables, parent_name, inheritance_mode) ==
    LET g == a.template_group
    IN  IF name \notin DOMAIN g.templates
        THEN Outcome(h, a, Raised("KeyError", name))
        ELSE
        LET id == g.templates[name]
            e1 == IF template.some
                  THEN [h[id] EXCEPT !.raw_template = template.val,
                                     !.parsed_template = ParseTemplate(template.val)]
                  ELSE h[id]
            e2 == IF variables.some
                  THEN [e1 EXCEPT !.variables =
                                      ReplaceVariables(variables.val, e1.parsed_template)]
                  ELSE e1
            e3 == IF parent_name.some
                  THEN [e2 EXCEPT !.parent = IF parent_name.val # ""
                                             THEN Some(g.templates[parent_name.val])
                                             ELSE None]
                  ELSE e2
            e4 == IF inheritance_mode.some
                  THEN [e3 EXCEPT !.inheritance_mode = inheritance_mode.val]
                  ELSE e3
        IN  IF Truthy(parent_name) /\ parent_name.val \notin DOMAIN g.templates
            THEN Outcome([h EXCEPT ![id] = e2], a, Raised("KeyError", parent_name.val))
            ELSE IF ~TemplateValid(e4)
            THEN Outcome([h EXCEPT ![id] = e4], a,
                         Raised("InvalidTemplateError", e4.raw_template))
            ELSE Outcome([h EXCEPT ![id] = e4],
                         [a EXCEPT !.events = Append(@, TemplateUpdated(g.name, name))],
                         Returned(id))

\* a delete_template without the check for children (C12 tells it from
\* DeleteTemplate)
DeleteTemplateUnguarded(h, a, name) ==
    LET g == a.template_group
    IN  IF name \notin DOMAIN g.templates
        THEN Outcome(h, a, Raised("KeyError", name))
        ELSE Outcome(Collect(h, WithoutTemplate(g.templates, name)),
                     [a EXCEPT !.template_group.templates = WithoutTemplate(@, name),
                               !.events = Append(@, TemplateDeleted(g.name, name))],
                     [kind |-> "ok"])

\* a delete_template that looks for children among the templates that
\* inherit only (C30 tells it from DeleteTemplate)
DeleteTemplateInheriting(h, a, name) ==
    LET g == a.template_group
        children == {n \in DOMAIN g.templates :
                        /\ h[g.templates[n]].parent.some
                        /\ h[g.templates[n]].inheritance_mode # "NONE"
                        /\ h[h[g.templates[n]].parent.val].name = name}
    IN  IF name \notin DOMAIN g.templates
        THEN Outcome(h, a, Raised("KeyError", name))
        ELSE IF children # {}
        THEN Outcome(h, a, Raised("ValueError", name))
        ELSE Outcome(Collect(h, WithoutTemplate(g.templates, name)),
                     [a EXCEPT !.template_group.templates = WithoutTemplate(@, name),
                               !.events = Append(@, TemplateDeleted(g.name, name))],
                     [kind |-> "ok"])

\* TemplateGroupAggregate.delete_template
DeleteTemplate(h, a, name) ==
    LET g == a.template_group
        children == {n \in DOMAIN g.templates :
                        /\ h[g.templates[n]].parent.some
                        /\ h[h[g.templates[n]].parent.val].name = name}
    IN  IF name \notin DOMAIN g.templates
        THEN Outcome(h, a, Raised("KeyError", name))
        ELSE IF children # {}
        THEN Outcome(h, a, Raised("ValueError", name))
        ELSE Outcome(Collect(h, WithoutTemplate(g.templates, name)),
                     [a EXCEPT !.template_group.templates = WithoutTemplate(@, name),
                               !.events = Append(@, TemplateDeleted(g.name, name))],
                     [kind |-> "ok"])

\* a clear_events that drops the oldest event only (C25 tells it from
\* ClearEvents)
ClearEventsOldest(a) ==
    [a EXCEPT !.events = IF @ = <<>> THEN @ ELSE Tail(@)]

\* TemplateGroupAggregate.clear_events
ClearEvents(a) == [a EXCEPT !.events = <<>>]

(***************************************************************************)
(* entities.py: StudioMapping.validate; aggregates.py:                     *)
(* StudioMappingAggregate                                                  *)
(***************************************************************************)
\* EntityType.value, DataType.value
EntityTypeValue ==
    [ASSET |-> "asset", SHOT |-> "shot", SEQUENCE |-> "sequence",
     EPISODE |-> "episode", SERIES |-> "series", PROJECT |-> "project"]

DataTypeValue ==
    [WORK |-> "work", PUBLISHED |-> "published", CACHE |-> "cache",
     PUBLISHED_CACHE |-> "published_cache", RENDER |-> "render",
     DELIVERABLE |-> "deliverable"]

\* StudioMapping.validate: the slots that are required, in the order of the
\* four checks
RequiredFields ==
    <<"asset_published_path", "asset_work_path", "shot_published_path",
      "shot_work_path">>

\* StudioMapping.validate: the list of the slots whose templates are validated
ValidatedFields ==
    <<"asset_published_path", "asset_work_path", "shot_published_path",
      "shot_work_path", "render_path", "cache_path",
      "asset_published_cache_path", "shot_published_cache_path",
      "deliverable_path">>

\* a StudioMapping.validate that reports the missing slots only (C18 tells
\* it from StudioMappingValidate)
StudioMappingValidateRequiredOnly(m) ==
    LET missing == SelectSeq(RequiredFields, LAMBDA f : m.slots[f] = None)
    IN  [i \in 1..Len(missing) |->
            [name |-> missing[i], message |-> "Template is required but not defined"]]

\* StudioMapping.validate: the (slot name, message) list
StudioMappingValidate(m) ==
    LET missing == SelectSeq(RequiredFields, LAMBDA f : m.slots[f] = None)
        invalid == SelectSeq(ValidatedFields,
                             LAMBDA f : m.slots[f] # None /\ ~TemplateValid(m.slots[f]))
    IN  [i \in 1..Len(missing) |->
            [name |-> missing[i], message |-> "Template is required but not defined"]]
        \o [i \in 1..Len(invalid) |->
            [name |-> invalid[i], message |-> "InvalidTemplateError"]]

\* StudioMappingAggregate.__init__
StudioMappingAggregate(studio_mapping) ==
    [studio_mapping |-> studio_mapping, events |-> <<>>]

\* events.py
MappingTemplateSet(studio_name, entity_type, data_type) ==
    [type |-> "MappingTemplateSet", studio_name |-> studio_name,
     entity_type |-> entity_type, data_type |-> data_type]

\* a set_template that does not validate the template (C17 tells it from
\* SetTemplate)
SetTemplateUnvalidated(a, entity_type, data_type, template) ==
    [agg |-> [a EXCEPT !.studio_mapping =
                          SetTemplateForEntity(@, entity_type, data_type, template),
                       !.events =
                          Append(@, MappingTemplateSet(a.studio_mapping.name,
                                                       EntityTypeValue[entity_type],
                                                       DataTypeValue[data_type]))],
     out |-> [kind |-> "ok"]]

\* StudioMappingAggregate.set_template
SetTemplate(a, entity_type, data_type, template) ==
    IF ~TemplateValid(template)
    THEN [agg |-> a, out |-> Raised("InvalidTemplateError", template.raw_template)]
    ELSE [agg |-> [a EXCEPT !.studio_mapping =
                               SetTemplateForEntity(@, entity_type, data_type, template),
                            !.events =
                               Append(@, MappingTemplateSet(a.studio_mapping.name,
                                                            EntityTypeValue[entity_type],
                                                            DataTypeValue[data_type]))],
          out |-> [kind |-> "ok"]]

\* StudioMappingAggregate.validate
AggregateValidate(a) ==
    IF StudioMappingValidate(a.studio_mapping) # <<>>
    THEN Raised("StudioMappingError", a.studio_mapping.name)
    ELSE [kind |-> "ok"]

(***************************************************************************)
(* folder_structure_service.py: backward analysis                          *)
(***************************************************************************)
\* _template_to_regex: re.escape leaves the characters of a template as
\* literals, and re.sub turns every \{NAME\} into (?P<NAME>[^/]+); the result
\* is a list of literal runs and named groups
TemplateToRegex(template) ==
    LET tokens == ParseTemplate(template)
    IN  [i \in 1..Len(tokens) |->
           IF tokens[i].token_type = "VARIABLE"
           THEN [kind |-> "group", name |-> tokens[i].content]
           ELSE [kind |-> "literal", text |-> tokens[i].content]]

\* re.compile rejects a pattern that defines a group name twice (re.error)
RegexCompiles(pattern) ==
    \A i, j \in 1..Len(pattern) :
        (pattern[i].kind = "group" /\ pattern[j].kind = "group"
            /\ pattern[i].name = pattern[j].name) => i = j

NoMatch == [matched |-> FALSE]

\* the longest prefix of s without '/'
SegmentRun(s) ==
    IF \E i \in 1..Len(s) : s[i] = "/"
    THEN Min({i \in 1..Len(s) : s[i] = "/"}) - 1
    ELSE Len(s)

Max(S) == CHOOSE x \in S : \A y \in S : x >= y

\* re.fullmatch by backtracking: a literal run must be next; a group [^/]+
\* is greedy, it takes the longest run for which the rest still matches
RECURSIVE FullMatch(_, _, _)
FullMatch(pattern, s, groups) ==
    IF pattern = <<>>
    THEN IF s = <<>> THEN [matched |-> TRUE, groupdict |-> groups] ELSE NoMatch
    ELSE LET e == Head(pattern)
         IN IF e.kind = "literal"
            THEN IF Len(s) >= Len(e.text) /\ SubSeq(s, 1, Len(e.text)) = e.text
                 THEN FullMatch(Tail(pattern), Tail2(s, Len(e.text) + 1), groups)
                 ELSE NoMatch
            ELSE LET fits == {n \in 1..SegmentRun(s) :
                                FullMatch(Tail(pattern), Tail2(s, n + 1),
                                          groups @@ (e.name :> SubSeq(s, 1, n))).matched}
                 IN IF fits = {} THEN NoMatch
                    ELSE FullMatch(Tail(pattern), Tail2(s, Max(fits) + 1),
                                   groups @@ (e.name :> SubSeq(s, 1, Max(fits))))

\* _match_template: the groupdict, None, or re.error
MatchTemplate(path, template) ==
    LET pattern == TemplateToRegex(template)
    IN  IF ~RegexCompiles(pattern) THEN [kind |-> "re.error"]
        ELSE LET m == FullMatch(pattern, path, <<>>)
             IN IF m.matched THEN [kind |-> "dict", groupdict |-> m.groupdict]
                ELSE [kind |-> "None"]

\* _analyze_path, lines 750-778: the list of (entity_type, data_type, template)
AnalysisMappings(m) ==
    <<[entity_type |-> "ASSET", data_type |-> "PUBLISHED", template |-> m.slots["asset_published_path"]],
      [entity_type |-> "ASSET", data_type |-> "WORK", template |-> m.slots["asset_work_path"]],
      [entity_type |-> "SHOT", data_type |-> "PUBLISHED", template |-> m.slots["shot_published_path"]],
      [entity_type |-> "SHOT", data_type |-> "WORK", template |-> m.slots["shot_work_path"]]>>
    \o (IF m.slots["render_path"] # None
        THEN <<[entity_type |-> "ASSET", data_type |-> "RENDER", template |-> m.slots["render_path"]],
               [entity_type |-> "SHOT", data_type |-> "RENDER", template |-> m.slots["render_path"]]>>
        ELSE <<>>)
    \o (IF m.slots["cache_path"] # None
        THEN <<[entity_type |-> "ASSET", data_type |-> "CACHE", template |-> m.slots["cache_path"]],
               [entity_type |-> "SHOT", data_type |-> "CACHE", template |-> m.slots["cache_path"]]>>
        ELSE <<>>)
    \o (IF m.slots["asset_published_cache_path"] # None
        THEN <<[entity_type |-> "ASSET", data_type |-> "PUBLISHED_CACHE",
                template |-> m.slots["asset_published_cache_path"]]>>
        ELSE <<>>)
    \o (IF m.slots["shot_published_cache_path"] # None
        THEN <<[entity_type |-> "SHOT", data_type |-> "PUBLISHED_CACHE",
                template |-> m.slots["shot_published_cache_path"]]>>
        ELSE <<>>)
    \o (IF m.slots["deliverable_path"] # None
        THEN <<[entity_type |-> "ASSET", data_type |-> "DELIVERABLE", template |-> m.slots["deliverable_path"]],
               [entity_type |-> "SHOT", data_type |-> "DELIVERABLE", template |-> m.slots["deliverable_path"]]>>
        ELSE <<>>)

\* _analyze_path, lines 780-789: the loop.  An unset slot is skipped; a
\* groupdict is returned when it is truthy, that is non-empty; re.error
\* leaves the loop as an exception.
RECURSIVE AnalyzeLoop(_, _)
AnalyzeLoop(path, mappings) ==
    IF mappings = <<>> THEN [kind |-> "None"]
    ELSE LET e == Head(mappings)
         IN IF e.template = None THEN AnalyzeLoop(path, Tail(mappings))
            ELSE LET variables == MatchTemplate(path, e.template.raw_template)
                 IN IF variables.kind = "re.error" THEN Raised("re.error", <<>>)
                    ELSE IF variables.kind = "dict" /\ DOMAIN variables.groupdict # {}
                    THEN [kind |-> "match", entity_type |-> e.entity_type,
                          data_type |-> e.data_type, variables |-> variables.groupdict]
                    ELSE AnalyzeLoop(path, Tail(mappings))

AnalyzePath(path, studio_mapping) == AnalyzeLoop(path, AnalysisMappings(studio_mapping))

(***************************************************************************)
(* Inputs of the formatting specification                                  *)
(***************************************************************************)
MaxPieces == 3

Pieces == {<<"/">>, <<"a">>, <<"{", "A", "}">>, <<"{", "B", "}">>, <<"{">>, <<"}">>}

RawTemplates == {Flatten(ps) : ps \in SeqsUpTo(Pieces, MaxPieces)}

VarA == <<"A">>

VarB == <<"B">>

LowA == <<"a">>

WithDefault(n) == [TemplateVariable(n) EXCEPT !.default_value = Some(<<"a">>)]

Optional(n) == [TemplateVariable(n) EXCEPT !.required = FALSE]

EnumOf(n) == [TemplateVariable(n) EXCEPT !.variable_type = "ENUM",
                                          !.allowed_values = {<<"a">>}]

\* the `variables` argument of the constructor
VariableDicts ==
    {f \in UNION {[D -> {"default", "optional", "enum"}] : D \in SUBSET {VarA, VarB}} :
        VarB \in DOMAIN f => f[VarB] \in {"default", "optional"}}

MakeVariables(f) ==
    [n \in DOMAIN f |-> CASE f[n] = "default" -> WithDefault(n)
                          [] f[n] = "optional" -> Optional(n)
                          [] f[n] = "enum" -> EnumOf(n)]

\* the keyword arguments of a format call
FormatKwargs ==
    {k \in UNION {[D -> {<<"a">>, <<"/">>}] : D \in SUBSET {VarA, VarB, LowA}} :
        LowA \in DOMAIN k => k[LowA] = <<"a">>}

NoCall == [op |-> "none"]

\* FolderStructureService.__init__: get_config supplies project_root and
\* studio_name
Service(project_root, studio_name) ==
    [project_root |-> project_root, studio_name |-> studio_name]

(***************************************************************************)
(* Formatting specification: one template, format calls                    *)
(***************************************************************************)
InitFormat ==
    /\ template_groups = <<>> /\ files = <<>>
    /\ \E raw \in RawTemplates, f \in VariableDicts :
          tmpl = FolderTemplate("t", raw, MakeVariables(f), None, "NONE")
    /\ fres = NoCall
    /\ repo = <<>> /\ bus = <<>> /\ call = NoCall
    /\ svc = Service(<<>>, "main_studio")
    /\ heap = <<>>
    /\ agg = NoAggregate

DoFormat ==
    \E kwargs \in FormatKwargs :
      \E out \in Format(tmpl, kwargs) :
        /\ fres' = [op |-> "format", kwargs |-> kwargs, out |-> out]
        /\ UNCHANGED <<template_groups, files, agg, tmpl, repo, bus, call, svc, heap>>

NextFormat == DoFormat

SpecFormat == InitFormat /\ [][NextFormat]_vars

(***************************************************************************)
(* folder_structure_service.py: the service over a repository and a bus    *)
(***************************************************************************)
Failed(kind, reason) == [kind |-> kind, reason |-> reason]

\* EventBus.publish: the event is delivered, here appended to the log
Publish(log, event) == Append(log, event)

\* events.py (occurred_on, the wall-clock time, is left out)
PathResolved(studio, entity_type, data_type, entity_name, path, context) ==
    [type |-> "PathResolved", studio_name |-> studio, entity_type |-> entity_type,
     data_type |-> data_type, entity_name |-> entity_name,
     resolved_path |-> path, context |-> context]

FolderStructureSynchronized(source_path, target_path) ==
    [type |-> "FolderStructureSynchronized", source_path |-> source_path,
     target_path |-> target_path, changes_count |-> 0]

\* repository.get_template_for_entity: None when the studio is unknown
RepoGetTemplateForEntity(r, studio, entity_type, data_type) ==
    IF studio \in DOMAIN r
    THEN GetTemplateForEntity(r[studio], entity_type, data_type)
    ELSE None

PROJECT == <<"P", "R", "O", "J", "E", "C", "T">>

ENTITY_NAME == <<"E", "N", "T", "I", "T", "Y", "_", "N", "A", "M", "E">>

\* get_path, lines 595-600: {'PROJECT': root, 'ENTITY_NAME': name, **kwargs}
GetPathFormatArgs(project_root, entity_name, kwargs) ==
    [n \in {PROJECT, ENTITY_NAME} \cup DOMAIN kwargs |->
        IF n \in DOMAIN kwargs THEN kwargs[n]
        ELSE IF n = PROJECT THEN project_root ELSE entity_name]

\* a get_path that lets ValueError leave as it is, as the conversion does
\* (C8 tells it from GetPathOutcome)
GetPathOutcomeReraising(studio, entity_type, data_type, entity_name, format_args, f) ==
    IF f.kind = "ok"
    THEN [out |-> f,
          events |-> Publish(<<>>, PathResolved(studio, entity_type, data_type,
                                                entity_name, f.path, format_args))]
    ELSE IF f.kind = "ValueError"
    THEN [out |-> Failed("ValueError", "invalid value"), events |-> <<>>]
    ELSE [out |-> Failed("PathResolutionError", f.kind), events |-> <<>>]

\* get_path, lines 602-631: what becomes of the outcome f of template.format.
\* The event is built and published inside the try block; every exception of
\* the block leaves as PathResolutionError.
GetPathOutcome(studio, entity_type, data_type, entity_name, format_args, f) ==
    IF f.kind = "ok"
    THEN [out |-> f,
          events |-> Publish(<<>>, PathResolved(studio, entity_type, data_type,
                                                entity_name, f.path, format_args))]
    ELSE IF f.kind = "VariableResolutionError"
    THEN [out |-> Failed("PathResolutionError", "missing variable"), events |-> <<>>]
    ELSE [out |-> Failed("PathResolutionError", f.kind), events |-> <<>>]

\* get_path: the outcomes, each with the events it publishes
GetPath(service, r, entity_type, data_type, entity_name, studio_name, kwargs) ==
    LET studio == IF studio_name.some /\ studio_name.val # "" THEN studio_name.val
                  ELSE service.studio_name
        template == RepoGetTemplateForEntity(r, studio, entity_type, data_type)
        format_args == GetPathFormatArgs(service.project_root, entity_name, kwargs)
    IN  IF template = None
        THEN {[out |-> Failed("PathResolutionError", "no template"), events |-> <<>>]}
        ELSE {GetPathOutcome(studio, entity_type, data_type, entity_name, format_args, f)
              : f \in Format(template, format_args)}

\* a conversion that lets every error of target_template.format leave as it
\* is (C7 tells it from ConvertOutcome)
ConvertOutcomeReraising(path, f) ==
    IF f.kind = "ok"
    THEN [out |-> f,
          events |-> Publish(<<>>, FolderStructureSynchronized(path, f.path))]
    ELSE [out |-> Failed(f.kind, "format failed"), events |-> <<>>]

\* convert_path_between_studios, lines 706-733: what becomes of the outcome f
\* of target_template.format.  ValueError and PathResolutionError leave as
\* they are; every other exception leaves as PathResolutionError.
ConvertOutcome(path, f) ==
    IF f.kind = "ok"
    THEN [out |-> f,
          events |-> Publish(<<>>, FolderStructureSynchronized(path, f.path))]
    ELSE IF f.kind = "ValueError"
    THEN [out |-> Failed("ValueError", "invalid value"), events |-> <<>>]
    ELSE [out |-> Failed("PathResolutionError", "failed to convert"), events |-> <<>>]

\* convert_path_between_studios: the outcomes, each with the events it
\* publishes
ConvertPathBetweenStudios(r, path, source_studio, target_studio) ==
    IF source_studio \notin DOMAIN r
    THEN {[out |-> Failed("ValueError", "source studio not found"), events |-> <<>>]}
    ELSE IF target_studio \notin DOMAIN r
    THEN {[out |-> Failed("ValueError", "target studio not found"), events |-> <<>>]}
    ELSE LET path_info == AnalyzePath(path, r[source_studio])
         IN IF path_info.kind = "re.error"
            THEN {[out |-> Failed("PathResolutionError", "failed to convert"), events |-> <<>>]}
            ELSE IF path_info.kind = "None"
            THEN {[out |-> Failed("PathResolutionError", "cannot analyze"), events |-> <<>>]}
            ELSE LET target_template ==
                        GetTemplateForEntity(r[target_studio], path_info.entity_type,
                                             path_info.data_type)
                 IN IF target_template = None
                    THEN {[out |-> Failed("PathResolutionError", "no template"), events |-> <<>>]}
                    ELSE {ConvertOutcome(path, f)
                          : f \in Format(target_template, path_info.variables)}

(***************************************************************************)
(* Actions of the service specifications                                   *)
(***************************************************************************)
MaxSlots == 2

MaxBus == 1

PopulatedSlots(r) ==
    {<<s, f>> \in (DOMAIN r) \X SlotFields : r[s].slots[f] # None}

Idle == call = NoCall

\* the caller takes the outcome; the service is ready for the next call
Return ==
    /\ call # NoCall
    /\ call' = NoCall
    /\ UNCHANGED <<template_groups, files, agg, tmpl, fres, repo, bus, svc, heap>>

\* StudioMapping.set_template_for_entity on a mapping of the repository
DoSetTemplateForEntity(entityTypes, dataTypes, pool) ==
    /\ Idle
    /\ \E s \in DOMAIN repo, e \in entityTypes, d \in dataTypes, t \in pool :
          /\ repo' = [repo EXCEPT ![s] = SetTemplateForEntity(@, e, d, t)]
          /\ Cardinality(PopulatedSlots(repo')) <= MaxSlots
    /\ UNCHANGED <<template_groups, files, agg, tmpl, fres, bus, call, svc, heap>>

\* FolderTemplate.format on the template of a slot
DoFormatSlot(kwargsPool) ==
    /\ Idle
    /\ \E sf \in PopulatedSlots(repo), kwargs \in kwargsPool :
         \E f \in Format(repo[sf[1]].slots[sf[2]], kwargs) :
            call' = [op |-> "format", studio |-> sf[1], field |-> sf[2],
                     kwargs |-> kwargs, out |-> f]
    /\ UNCHANGED <<template_groups, files, agg, tmpl, fres, repo, bus, svc, heap>>

\* _analyze_path on a path of the pool, or on the path that the format call
\* in progress has just returned (against the mapping that holds the template)
DoAnalyzePath(paths) ==
    /\ \/ /\ Idle
          /\ \E s \in DOMAIN repo, p \in paths :
                call' = [op |-> "analyze", studio |-> s, path |-> p,
                         formatted |-> None,
                         out |-> AnalyzePath(p, repo[s])]
       \/ /\ call.op = "format" /\ call.out.kind = "ok"
          /\ call' = [op |-> "analyze", studio |-> call.studio, path |-> call.out.path,
                      formatted |-> Some([field |-> call.field, kwargs |-> call.kwargs]),
                      out |-> AnalyzePath(call.out.path, repo[call.studio])]
    /\ UNCHANGED <<template_groups, files, agg, tmpl, fres, repo, bus, svc, heap>>

DoConvert(paths, studios) ==
    /\ Idle
    /\ Len(bus) < MaxBus
    /\ \E p \in paths, s \in studios, t \in studios :
         \E c \in ConvertPathBetweenStudios(repo, p, s, t) :
            /\ call' = [op |-> "convert", path |-> p, source_studio |-> s,
                        target_studio |-> t, out |-> c.out]
            /\ bus' = bus \o c.events
    /\ UNCHANGED <<template_groups, files, agg, tmpl, fres, repo, svc, heap>>

DoGetPath(studios, names, kwargsPool) ==
    /\ Idle
    /\ Len(bus) < MaxBus
    /\ \E e \in EntityType, d \in DataType, n \in names,
          s \in {None} \cup {Some(x) : x \in studios}, kwargs \in kwargsPool :
         \E g \in GetPath(svc, repo, e, d, n, s, kwargs) :
            /\ call' = [op |-> "get_path", entity_type |-> e, data_type |-> d,
                        entity_name |-> n, studio_name |-> s, kwargs |-> kwargs,
                        out |-> g.out]
            /\ bus' = bus \o g.events
    /\ UNCHANGED <<template_groups, files, agg, tmpl, fres, repo, svc, heap>>

NoTemplate == FolderTemplate("t", <<>>, <<>>, None, "NONE")

(***************************************************************************)
(* Analysis specification: one studio mapping, format and _analyze_path    *)
(***************************************************************************)
AnalysisRaws ==
    {<<"/", "a", "/", "{", "A", "}">>,
     <<"/", "{", "B", "}", "/", "{", "A", "}">>,
     <<"/", "{", "B", "}", "{", "A", "}">>,
     <<"/", "{", "A", "}", "/", "{", "{", "}", "}">>,
     <<"/", "a", "/", "a">>,
     <<"/", "{", "A", "}", "/", "{", "A", "}">>}

AnalysisTemplates ==
    {FolderTemplate("t", raw, <<>>, None, "NONE") : raw \in AnalysisRaws}
    \cup {FolderTemplate("t", <<"/", "a", "/", "{", "A", "}">>,
                         (VarA :> WithDefault(VarA)) @@ (VarB :> WithDefault(VarB)),
                         None, "NONE")}

AnalysisKwargs ==
    UNION {[D -> {<<"a">>, <<"a", "b">>, <<"/">>, <<>>}] : D \in SUBSET {VarA, VarB}}

AnalysisPaths ==
    {<<"/", "a", "/", "a">>, <<"/", "a", "/", "b">>, <<"/", "b", "/", "a">>,
     <<"/", "a">>, <<"/", "b", "/", "b">>}

InitAnalyze ==
    /\ template_groups = <<>> /\ files = <<>>
    /\ tmpl = NoTemplate /\ fres = NoCall
    /\ repo = ("src" :> StudioMapping("src"))
    /\ bus = <<>> /\ call = NoCall
    /\ svc = Service(<<>>, "main_studio")
    /\ heap = <<>>
    /\ agg = NoAggregate

NextAnalyze ==
    \/ DoSetTemplateForEntity({"ASSET", "SHOT", "PROJECT"}, {"WORK", "RENDER"},
                              AnalysisTemplates)
    \/ DoFormatSlot(AnalysisKwargs)
    \/ DoAnalyzePath(AnalysisPaths)
    \/ Return

SpecAnalyze == InitAnalyze /\ [][NextAnalyze]_vars

(***************************************************************************)
(* Conversion specification: two studio mappings, convert_path_between_... *)
(***************************************************************************)
ConvertTemplates ==
    {FolderTemplate("t", raw, <<>>, None, "NONE") :
        raw \in AnalysisRaws \ {<<"/", "{", "B", "}", "{", "A", "}">>,
                                 <<"/", "{", "A", "}", "/", "{", "{", "}", "}">>}}
    \cup {FolderTemplate("t", <<"/", "b", "/", "{", "A", "}">>,
                         (VarA :> EnumOf(VarA)), None, "NONE")}

ConvertPaths ==
    {<<"/", "a", "/", "a">>, <<"/", "a", "/", "b">>, <<"/", "b", "/", "a">>, <<"/", "a">>}

ConvertStudios == {"src", "tgt", "gone"}

InitConvert ==
    /\ template_groups = <<>> /\ files = <<>>
    /\ tmpl = NoTemplate /\ fres = NoCall
    /\ repo = ("src" :> StudioMapping("src")) @@ ("tgt" :> StudioMapping("tgt"))
    /\ bus = <<>> /\ call = NoCall
    /\ svc = Service(<<>>, "main_studio")
    /\ heap = <<>>
    /\ agg = NoAggregate

NextConvert ==
    \/ DoSetTemplateForEntity({"ASSET"}, {"WORK", "RENDER"}, ConvertTemplates)
    \/ DoConvert(ConvertPaths, ConvertStudios)
    \/ Return

SpecConvert == InitConvert /\ [][NextConvert]_vars

(***************************************************************************)
(* Resolution specification: one studio mapping, get_path                  *)
(***************************************************************************)
ASSET_NAME == <<"A", "S", "S", "E", "T", "_", "N", "A", "M", "E">>

Placeholder(n) == <<"{">> \o n \o <<"}">>

ResolveTemplates ==
    {FolderTemplate("t", <<"/">> \o Placeholder(PROJECT) \o <<"/">> \o Placeholder(ASSET_NAME),
                    <<>>, None, "NONE"),
     FolderTemplate("t", <<"/">> \o Placeholder(PROJECT) \o <<"/">> \o Placeholder(ENTITY_NAME),
                    <<>>, None, "NONE"),
     FolderTemplate("t", <<"/">> \o Placeholder(PROJECT) \o <<"/", "{">>, <<>>, None, "NONE"),
     FolderTemplate("t", <<"/">> \o Placeholder(PROJECT),
                    (PROJECT :> [TemplateVariable(PROJECT) EXCEPT
                                    !.variable_type = "ENUM",
                                    !.allowed_values = {<<"m">>}]),
                    None, "NONE")}

ResolveKwargs ==
    {k \in UNION {[D -> {<<"m">>, <<"n">>}] : D \in SUBSET {PROJECT, ASSET_NAME}} :
        /\ (PROJECT \in DOMAIN k => k[PROJECT] = <<"m">>)
        /\ (ASSET_NAME \in DOMAIN k => k[ASSET_NAME] = <<"n">>)}

ResolveStudios == {"main_studio", "gone"}

EntityNames == {<<"h">>}

InitResolve ==
    /\ template_groups = <<>> /\ files = <<>>
    /\ tmpl = NoTemplate /\ fres = NoCall
    /\ repo = ("main_studio" :> StudioMapping("main_studio"))
    /\ bus = <<>> /\ call = NoCall
    /\ \E root \in {<<>>, <<"r">>} : svc = Service(root, "main_studio")
    /\ heap = <<>>
    /\ agg = NoAggregate

NextResolve ==
    \/ DoSetTemplateForEntity({"ASSET"}, {"WORK", "RENDER"}, ResolveTemplates)
    \/ DoGetPath(ResolveStudios, EntityNames, ResolveKwargs)
    \/ Return

SpecResolve == InitResolve /\ [][NextResolve]_vars

(***************************************************************************)
(* Inheritance specification: templates constructed with a parent, and     *)
(* get_effective_template                                                  *)
(***************************************************************************)
MaxObjects == 3

InheritRaws ==
    {<<"/", "a">>, <<"{", "A", "}", "/">>, <<"b">>}

InheritanceModes == {"NONE", "EXTEND", "OVERRIDE"}

InitInherit ==
    /\ template_groups = <<>> /\ files = <<>>
    /\ tmpl = NoTemplate /\ fres = NoCall
    /\ repo = <<>> /\ bus = <<>> /\ call = NoCall
    /\ svc = Service(<<>>, "main_studio")
    /\ heap = <<>>
    /\ agg = NoAggregate

\* FolderTemplate(name, template, parent=p, inheritance_mode=m)
NewFolderTemplate ==
    /\ Idle
    /\ Len(heap) < MaxObjects
    /\ \E raw \in InheritRaws, m \in InheritanceModes,
          p \in {None} \cup {Some(i) : i \in 1..Len(heap)} :
          heap' = Append(heap, FolderTemplate("t", raw, <<>>, p, m))
    /\ UNCHANGED <<template_groups, files, agg, tmpl, fres, repo, bus, call, svc>>

DoGetEffectiveTemplate ==
    /\ Idle
    /\ \E id \in 1..Len(heap) :
          call' = [op |-> "get_effective_template", id |-> id,
                   out |-> GetEffectiveTemplate(heap, id)]
    /\ UNCHANGED <<template_groups, files, agg, tmpl, fres, repo, bus, svc, heap>>

NextInherit ==
    \/ NewFolderTemplate
    \/ DoGetEffectiveTemplate
    \/ Return

SpecInherit == InitInherit /\ [][NextInherit]_vars

(***************************************************************************)
(* Template group specifications: one TemplateGroupAggregate, its          *)
(* create_template, update_template, delete_template and clear_events,     *)
(* and get_effective_template on the templates of the group                *)
(***************************************************************************)
MaxEvents == 1

GroupName == "g"

TemplateNames == {"a", "b"}

GroupRaws == {<<"{", "A", "}">>, <<"{", "B", "}">>}

GroupModes == {"NONE", "EXTEND"}

\* the variables argument: absent, an empty dict, or one optional variable
GroupVariables == {None, Some(<<>>), Some(VarB :> Optional(VarB))}

\* the parent_name argument: absent, the empty string, or a name
ParentNames == {None, Some("")} \cup {Some(n) : n \in TemplateNames}

OptionOf(S) == {None} \cup {Some(x) : x \in S}

InitGroup ==
    /\ template_groups = <<>> /\ files = <<>>
    /\ tmpl = NoTemplate /\ fres = NoCall
    /\ repo = <<>> /\ bus = <<>> /\ call = NoCall
    /\ svc = Service(<<>>, "main_studio")
    /\ heap = <<>>
    /\ agg = TemplateGroupAggregate(TemplateGroup(GroupName))

DoCreateTemplate(raws) ==
    /\ Idle
    /\ Len(agg.events) < MaxEvents
    /\ \E name \in TemplateNames, template \in raws,
          parent_name \in ParentNames, mode \in GroupModes :
          LET r == CreateTemplate(heap, agg, name, template, None, parent_name, mode)
          IN  /\ heap' = r.heap
              /\ agg' = r.agg
              /\ call' = [op |-> "create_template", name |-> name,
                          template |-> Some(template), variables |-> None,
                          parent_name |-> parent_name,
                          inheritance_mode |-> Some(mode), out |-> r.out]
    /\ UNCHANGED <<template_groups, files, tmpl, fres, repo, bus, svc>>

DoUpdateTemplate(templates, variablesPool) ==
    /\ Idle
    /\ Len(agg.events) < MaxEvents
    /\ \E name \in TemplateNames, template \in templates,
          variables \in variablesPool, parent_name \in ParentNames,
          mode \in OptionOf(GroupModes) :
          LET r == UpdateTemplate(heap, agg, name, template, variables,
                                  parent_name, mode)
          IN  /\ heap' = r.heap
              /\ agg' = r.agg
              /\ call' = [op |-> "update_template", name |-> name,
                          template |-> template, variables |-> variables,
                          parent_name |-> parent_name,
                          inheritance_mode |-> mode, out |-> r.out]
    /\ UNCHANGED <<template_groups, files, tmpl, fres, repo, bus, svc>>

DoDeleteTemplate ==
    /\ Idle
    /\ Len(agg.events) < MaxEvents
    /\ \E name \in TemplateNames :
          LET r == DeleteTemplate(heap, agg, name)
          IN  /\ heap' = r.heap
              /\ agg' = r.agg
              /\ call' = [op |-> "delete_template", name |-> name, out |-> r.out]
    /\ UNCHANGED <<template_groups, files, tmpl, fres, repo, bus, svc>>

DoClearEvents ==
    /\ Idle
    /\ agg.events # <<>>
    /\ agg' = ClearEvents(agg)
    /\ UNCHANGED <<template_groups, files, tmpl, fres, repo, bus, call, svc, heap>>

\* get_effective_template on a template of the group
DoGetEffectiveTemplateOf ==
    /\ Idle
    /\ \E name \in DOMAIN agg.template_group.templates :
          call' = [op |-> "get_effective_template", name |-> name,
                   out |-> GetEffectiveTemplate(heap, agg.template_group.templates[name])]
    /\ UNCHANGED <<template_groups, files, agg, tmpl, fres, repo, bus, svc, heap>>

\* every argument of update_template drawn from its pool
NextGroup ==
    \/ DoCreateTemplate(GroupRaws)
    \/ DoUpdateTemplate(OptionOf(GroupRaws), GroupVariables)
    \/ DoDeleteTemplate
    \/ DoClearEvents
    \/ DoGetEffectiveTemplateOf
    \/ Return

SpecGroup == InitGroup /\ [][NextGroup]_vars

\* the calls that decide the parents: one raw string, and update_template
\* with parent_name and inheritance_mode only
NextParents ==
    \/ DoCreateTemplate({<<"{", "A", "}">>})
    \/ DoUpdateTemplate({None}, {None})
    \/ DoDeleteTemplate
    \/ DoClearEvents
    \/ Return

SpecParents == InitGroup /\ [][NextParents]_vars

(***************************************************************************)
(* Studio mapping specifications: one StudioMappingAggregate; the slots of *)
(* its StudioMapping set directly and validated, and set through the       *)
(* aggregate                                                               *)
(***************************************************************************)
\* test_set_template_invalid: variables.pop(n) on a constructed template
Undeclared(t, n) ==
    [t EXCEPT !.variables = [k \in DOMAIN t.variables \ {n} |-> t.variables[k]]]

ValidTemplate == FolderTemplate("asset_work", <<"/", "{", "A", "}">>, <<>>, None, "NONE")

InvalidTemplate ==
    Undeclared(FolderTemplate("invalid", <<"/", "{", "B", "}">>, <<>>, None, "NONE"), VarB)

MappingTemplates == {ValidTemplate, InvalidTemplate}

MappingDataTypes == {"WORK", "PUBLISHED", "RENDER"}

InitMapping ==
    /\ template_groups = <<>> /\ files = <<>>
    /\ tmpl = NoTemplate /\ fres = NoCall
    /\ repo = <<>> /\ bus = <<>> /\ call = NoCall
    /\ svc = Service(<<>>, "main_studio")
    /\ heap = <<>>
    /\ agg = StudioMappingAggregate(StudioMapping("studio_a"))

\* StudioMapping.set_template_for_entity on the mapping of the aggregate
DoMappingSetTemplateForEntity ==
    /\ Idle
    /\ \E e \in EntityType, d \in MappingDataTypes, t \in MappingTemplates :
          /\ agg' = [agg EXCEPT !.studio_mapping = SetTemplateForEntity(@, e, d, t)]
          /\ call' = [op |-> "set_template_for_entity", entity_type |-> e,
                      data_type |-> d, template |-> t]
    /\ UNCHANGED <<template_groups, files, tmpl, fres, repo, bus, svc, heap>>

\* StudioMapping.validate on the mapping of the aggregate
DoMappingValidate ==
    /\ Idle
    /\ call' = [op |-> "validate", out |-> StudioMappingValidate(agg.studio_mapping)]
    /\ UNCHANGED <<template_groups, files, agg, tmpl, fres, repo, bus, svc, heap>>

DoAggregateValidate ==
    /\ Idle
    /\ call' = [op |-> "aggregate_validate", out |-> AggregateValidate(agg)]
    /\ UNCHANGED <<template_groups, files, agg, tmpl, fres, repo, bus, svc, heap>>

NextMapping ==
    \/ DoMappingSetTemplateForEntity
    \/ DoMappingValidate
    \/ DoAggregateValidate
    \/ Return

SpecMapping == InitMapping /\ [][NextMapping]_vars

\* StudioMappingAggregate.set_template
DoSetTemplate ==
    /\ Idle
    /\ Len(agg.events) < MaxEvents
    /\ \E e \in {"ASSET", "SHOT", "SEQUENCE"}, d \in MappingDataTypes,
          t \in MappingTemplates :
          LET r == SetTemplate(agg, e, d, t)
          IN  /\ agg' = r.agg
              /\ call' = [op |-> "set_template", entity_type |-> e,
                          data_type |-> d, template |-> t, out |-> r.out]
    /\ UNCHANGED <<template_groups, files, tmpl, fres, repo, bus, svc, heap>>

NextMappingAggregate ==
    \/ DoSetTemplate
    \/ DoClearEvents
    \/ DoAggregateValidate
    \/ Return

SpecMappingAggregate == InitMapping /\ [][NextMappingAggregate]_vars

(***************************************************************************)
(* folder_structure_service.py: the template group and studio mapping      *)
(* methods of the service, over a repository that keeps the aggregates it   *)
(* is given (template_groups holds, for every group, its heap of templates *)
(* and its aggregate; repo holds the StudioMapping of every aggregate)     *)
(***************************************************************************)
TemplateGroupCreated(group_name) ==
    [type |-> "TemplateGroupCreated", group_name |-> group_name]

StudioMappingCreated(studio_name) ==
    [type |-> "StudioMappingCreated", studio_name |-> studio_name]

\* TemplateInheritance(value): the member with that value
TemplateInheritance == [none |-> "NONE", extend |-> "EXTEND", override |-> "OVERRIDE"]

\* `for event in aggregate.events: self._event_bus.publish(event)`
RECURSIVE PublishAll(_, _)
PublishAll(log, events) ==
    IF events = <<>> THEN log
    ELSE PublishAll(Publish(log, Head(events)), Tail(events))

\* repository.get_template_group_by_name: the stored aggregate, or None
GetTemplateGroupByName(groups, group_name) ==
    IF group_name \in DOMAIN groups THEN Some(groups[group_name]) ELSE None

\* repository.save_template_group: the aggregate is stored under its name
SaveTemplateGroup(groups, h, a) ==
    [n \in DOMAIN groups \cup {a.template_group.name} |->
        IF n = a.template_group.name THEN [heap |-> h, agg |-> a] ELSE groups[n]]

ServiceOutcome(groups, mappings, log, out) ==
    [template_groups |-> groups, repo |-> mappings, bus |-> log, out |-> out]

\* the `variables` dictionary of dictionaries turned into TemplateVariable
\* objects; an empty dictionary is passed on as None
ServiceVariables(variables) ==
    IF variables.some /\ variables.val # <<>>
    THEN Some([n \in DOMAIN variables.val |->
                 [TemplateVariable(n) EXCEPT !.required = variables.val[n].required]])
    ELSE None

\* the ending shared by create_template, update_template and
\* delete_template once the aggregate's method has run on the stored
\* aggregate: save, publish and clear on success; ValueError (and, where
\* the method lists it, InvalidTemplateError) raised again; anything else
\* raised as RepositoryError
AfterAggregate(groups, mappings, log, r, reraised) ==
    IF r.out.kind = "ok"
    THEN ServiceOutcome(SaveTemplateGroup(groups, r.heap, ClearEvents(r.agg)),
                        mappings, PublishAll(log, r.agg.events), r.out)
    ELSE ServiceOutcome(SaveTemplateGroup(groups, r.heap, r.agg), mappings, log,
                        IF r.out.kind \in reraised THEN r.out
                        ELSE Raised("RepositoryError", r.out))

\* FolderStructureService.create_template_group
ServiceCreateTemplateGroup(groups, mappings, log, name) ==
    IF GetTemplateGroupByName(groups, name).some
    THEN ServiceOutcome(groups, mappings, log,
                        Raised("RepositoryError", Raised("ValueError", name)))
    ELSE ServiceOutcome(SaveTemplateGroup(groups, <<>>,
                                          TemplateGroupAggregate(TemplateGroup(name))),
                        mappings, Publish(log, TemplateGroupCreated(name)),
                        [kind |-> "ok", name |-> name])

\* FolderStructureService.create_studio_mapping
ServiceCreateStudioMapping(groups, mappings, log, name) ==
    IF name \in DOMAIN mappings
    THEN ServiceOutcome(groups, mappings, log,
                        Raised("RepositoryError", Raised("ValueError", name)))
    ELSE ServiceOutcome(groups,
                        [n \in DOMAIN mappings \cup {name} |->
                            IF n = name
                            THEN StudioMappingAggregate(StudioMapping(name)).studio_mapping
                            ELSE mappings[n]],
                        Publish(log, StudioMappingCreated(name)),
                        [kind |-> "ok", name |-> name])

\* FolderStructureService.create_template
ServiceCreateTemplate(groups, mappings, log, group_name, template_name, template_string, variables, parent_name, inheritance_mode) ==
    LET aggregate == GetTemplateGroupByName(groups, group_name)
    IN  IF ~aggregate.some
        THEN ServiceOutcome(groups, mappings, log, Raised("ValueError", group_name))
        ELSE AfterAggregate(groups, mappings, log,
                 CreateTemplate(aggregate.val.heap, aggregate.val.agg, template_name,
                                template_string, ServiceVariables(variables),
                                parent_name, TemplateInheritance[inheritance_mode]),
                 {"ValueError", "InvalidTemplateError"})

\* FolderStructureService.update_template
ServiceUpdateTemplate(groups, mappings, log, group_name, template_name, template_string, variables, parent_name, inheritance_mode) ==
    LET aggregate == GetTemplateGroupByName(groups, group_name)
        inheritance_enum ==
            IF inheritance_mode.some /\ inheritance_mode.val # ""
            THEN Some(TemplateInheritance[inheritance_mode.val]) ELSE None
    IN  IF ~aggregate.some
        THEN ServiceOutcome(groups, mappings, log, Raised("ValueError", group_name))
        ELSE AfterAggregate(groups, mappings, log,
                 UpdateTemplate(aggregate.val.heap, aggregate.val.agg, template_name,
                                template_string, ServiceVariables(variables),
                                parent_name, inheritance_enum),
                 {"ValueError", "InvalidTemplateError"})

\* FolderStructureService.delete_template
ServiceDeleteTemplate(groups, mappings, log, group_name, template_name) ==
    LET aggregate == GetTemplateGroupByName(groups, group_name)
    IN  IF ~aggregate.some
        THEN ServiceOutcome(groups, mappings, log, Raised("ValueError", group_name))
        ELSE AfterAggregate(groups, mappings, log,
                 DeleteTemplate(aggregate.val.heap, aggregate.val.agg, template_name),
                 {"ValueError"})

(***************************************************************************)
(* Service specification: a service over an empty repository and a mock    *)
(* event bus, as the service tests build it; groups, mappings and          *)
(* templates are created, updated and deleted through the service          *)
(***************************************************************************)
ServiceGroupNames == {GroupName}

ServiceStudioNames == {"studio_a"}

\* the inheritance_mode argument of the service: the value of an enum member
ServiceModes == {"none", "extend"}

\* the variables argument of the service: absent, empty, or one optional variable
ServiceVariableDicts == {None, Some(<<>>), Some(VarB :> [required |-> FALSE])}

InitService ==
    /\ template_groups = <<>> /\ files = <<>>
    /\ tmpl = NoTemplate /\ fres = NoCall
    /\ repo = <<>> /\ bus = <<>> /\ call = NoCall
    /\ svc = Service(<<>>, "main_studio")
    /\ heap = <<>>
    /\ agg = NoAggregate

\* the service call `c` has run with outcome `r`
ServiceCalled(c, r) ==
    /\ template_groups' = r.template_groups
    /\ repo' = r.repo
    /\ bus' = r.bus
    /\ call' = [c EXCEPT !.out = r.out]
    /\ UNCHANGED <<files, agg, tmpl, fres, svc, heap>>

DoServiceCreateTemplateGroup ==
    /\ Idle
    /\ Len(bus) < MaxBus
    /\ \E name \in ServiceGroupNames :
          ServiceCalled([op |-> "create_template_group", name |-> name, out |-> None],
                        ServiceCreateTemplateGroup(template_groups, repo, bus, name))

DoServiceCreateStudioMapping ==
    /\ Idle
    /\ Len(bus) < MaxBus
    /\ \E name \in ServiceStudioNames :
          ServiceCalled([op |-> "create_studio_mapping", name |-> name, out |-> None],
                        ServiceCreateStudioMapping(template_groups, repo, bus, name))

DoServiceCreateTemplate ==
    /\ Idle
    /\ Len(bus) < MaxBus
    /\ \E group_name \in ServiceGroupNames, template_name \in TemplateNames,
          variables \in ServiceVariableDicts, parent_name \in ParentNames,
          mode \in ServiceModes :
          ServiceCalled([op |-> "create_template", group_name |-> group_name,
                         template_name |-> template_name, variables |-> variables,
                         parent_name |-> parent_name, inheritance_mode |-> mode,
                         out |-> None],
                        ServiceCreateTemplate(template_groups, repo, bus, group_name,
                                              template_name, <<"{", "A", "}">>,
                                              variables, parent_name, mode))

DoServiceUpdateTemplate ==
    /\ Idle
    /\ Len(bus) < MaxBus
    /\ \E group_name \in ServiceGroupNames, template_name \in TemplateNames,
          parent_name \in ParentNames, mode \in OptionOf(ServiceModes) :
          ServiceCalled([op |-> "update_template", group_name |-> group_name,
                         template_name |-> template_name,
                         parent_name |-> parent_name, inheritance_mode |-> mode,
                         out |-> None],
                        ServiceUpdateTemplate(template_groups, repo, bus, group_name,
                                              template_name, None, None,
                                              parent_name, mode))

DoServiceDeleteTemplate ==
    /\ Idle
    /\ Len(bus) < MaxBus
    /\ \E group_name \in ServiceGroupNames, template_name \in TemplateNames :
          ServiceCalled([op |-> "delete_template", group_name |-> group_name,
                         template_name |-> template_name, out |-> None],
                        ServiceDeleteTemplate(template_groups, repo, bus, group_name,
                                              template_name))

\* mock_event_bus.reset_mock(): the recorded publish calls are forgotten
DoResetMock ==
    /\ Idle
    /\ bus # <<>>
    /\ bus' = <<>>
    /\ UNCHANGED <<template_groups, files, agg, tmpl, fres, repo, call, svc, heap>>

NextService ==
    \/ DoServiceCreateTemplateGroup
    \/ DoServiceCreateStudioMapping
    \/ DoServiceCreateTemplate
    \/ DoServiceUpdateTemplate
    \/ DoServiceDeleteTemplate
    \/ DoResetMock
    \/ Return

SpecService == InitService /\ [][NextService]_vars

(***************************************************************************)
(* yaml_folder_structure_repository.py: a template group written to a YAML *)
(* document and read back.  A document is the tree of dictionaries handed  *)
(* to yaml.dump, which yaml.safe_load gives back with its keys sorted; the *)
(* descriptions and the timestamps are left out                            *)
(***************************************************************************)
\* VariableType.value, TemplateInheritance.value
VariableTypeValue ==
    [STRING |-> "string", INTEGER |-> "integer", ENUM |-> "enum",
     DATE |-> "date", BOOLEAN |-> "boolean", CONTEXT |-> "context"]

\* VariableType(value): the member with that value
VariableType ==
    [string |-> "STRING", integer |-> "INTEGER", enum |-> "ENUM",
     date |-> "DATE", boolean |-> "BOOLEAN", context |-> "CONTEXT"]

TemplateInheritanceValue == [NONE |-> "none", EXTEND |-> "extend", OVERRIDE |-> "override"]

\* save_template_group, lines 89-104: default_value and allowed_values are
\* keys of var_data only when set (None and {} stand for the absent keys)
VariableData(var) ==
    [type |-> VariableTypeValue[var.variable_type], required |-> var.required,
     default_value |-> var.default_value, allowed_values |-> var.allowed_values]

\* save_template_group, lines 75-106
TemplateData(h, id) ==
    [template |-> h[id].raw_template,
     variables |-> [n \in DOMAIN h[id].variables |-> VariableData(h[id].variables[n])],
     inheritance |-> [mode |-> TemplateInheritanceValue[h[id].inheritance_mode],
                      parent |-> IF h[id].parent.some
                                 THEN Some(h[h[id].parent.val].name) ELSE None]]

\* save_template_group: the document written for the group
TemplateGroupDocument(h, a) ==
    [name |-> a.template_group.name,
     templates |-> [n \in DOMAIN a.template_group.templates |->
                       TemplateData(h, a.template_group.templates[n])]]

\* save_template_group: the file of the group now holds its document
SaveTemplateGroupFile(fs, h, a) ==
    [n \in DOMAIN fs \cup {a.template_group.name} |->
        IF n = a.template_group.name THEN TemplateGroupDocument(h, a) ELSE fs[n]]

\* the template names in the order of the sorted keys of a document
TemplateNameOrder == <<"a", "b">>

SortedNames(S) == SelectSeq(TemplateNameOrder, LAMBDA n : n \in S)

\* get_template_group_by_name, lines 162-172: the variable of a var_data
LoadedVariable(n, var_data) ==
    [name |-> n, variable_type |-> VariableType[var_data.type],
     required |-> var_data.required, default_value |-> var_data.default_value,
     allowed_values |-> var_data.allowed_values]

\* get_template_group_by_name, lines 151-175: the template constructed from
\* its name and raw string, which declares every variable the string
\* references; add_variable of a saved variable raises ValueError when the
\* template holds a variable of that name already
LoadedTemplate(name, template_data) ==
    LET template == FolderTemplate(name, template_data.template, <<>>, None, "NONE")
        saved == template_data.variables
    IN  IF DOMAIN saved \cap DOMAIN template.variables # {}
        THEN Raised("ValueError", name)
        ELSE [kind |-> "ok",
              template |->
                  [template EXCEPT !.variables =
                      [n \in DOMAIN template.variables \cup DOMAIN saved |->
                          IF n \in DOMAIN saved THEN LoadedVariable(n, saved[n])
                          ELSE template.variables[n]]]]

\* get_template_group_by_name, lines 177-189: the parent and the
\* inheritance mode are set only for a parent name that is set and known
WithParent(template, inheritance, ids) ==
    IF inheritance.parent.some /\ inheritance.parent.val # ""
       /\ inheritance.parent.val \in DOMAIN ids
    THEN [template EXCEPT !.parent = Some(ids[inheritance.parent.val]),
                          !.inheritance_mode = TemplateInheritance[inheritance.mode]]
    ELSE template

\* get_template_group_by_name: None when there is no file and when anything
\* raises; otherwise the aggregate of a new group with new templates
GetTemplateGroupFile(fs, group_name) ==
    IF group_name \notin DOMAIN fs THEN None
    ELSE LET data == fs[group_name]
             names == SortedNames(DOMAIN data.templates)
             ids == [n \in DOMAIN data.templates |->
                        CHOOSE i \in 1..Len(names) : names[i] = n]
             loaded == [i \in 1..Len(names) |->
                           LoadedTemplate(names[i], data.templates[names[i]])]
         IN  IF \E i \in 1..Len(names) : loaded[i].kind # "ok" THEN None
             ELSE Some([heap |-> [i \in 1..Len(names) |->
                                    WithParent(loaded[i].template,
                                               data.templates[names[i]].inheritance,
                                               ids)],
                        agg |-> [TemplateGroupAggregate(TemplateGroup(data.name))
                                   EXCEPT !.template_group.templates = ids]])

(***************************************************************************)
(* YAML repository specification: a group built through its aggregate,     *)
(* saved at any moment and read back                                       *)
(***************************************************************************)
\* raw strings that reference a variable, and one that references none
YamlRaws == {<<"{", "A", "}">>, <<"/", "a">>}

InitYaml ==
    /\ template_groups = <<>> /\ files = <<>>
    /\ tmpl = NoTemplate /\ fres = NoCall
    /\ repo = <<>> /\ bus = <<>> /\ call = NoCall
    /\ svc = Service(<<>>, "main_studio")
    /\ heap = <<>>
    /\ agg = TemplateGroupAggregate(TemplateGroup(GroupName))

DoSaveTemplateGroup ==
    /\ Idle
    /\ files' = SaveTemplateGroupFile(files, heap, agg)
    /\ call' = [op |-> "save_template_group", out |-> [kind |-> "ok"]]
    /\ UNCHANGED <<template_groups, agg, tmpl, fres, repo, bus, svc, heap>>

DoGetTemplateGroupByName ==
    /\ Idle
    /\ \E group_name \in {GroupName} :
          call' = [op |-> "get_template_group_by_name", group_name |-> group_name,
                   out |-> GetTemplateGroupFile(files, group_name)]
    /\ UNCHANGED <<template_groups, files, agg, tmpl, fres, repo, bus, svc, heap>>

NextYaml ==
    \/ DoCreateTemplate(YamlRaws)
    \/ DoClearEvents
    \/ DoSaveTemplateGroup
    \/ DoGetTemplateGroupByName
    \/ Return

SpecYaml == InitYaml /\ [][NextYaml]_vars

(***************************************************************************)
(* Variable specification: TemplateVariable objects constructed from a     *)
(* name                                                                    *)
(***************************************************************************)
\* TemplateVariable(name=n): __post_init__ raises ValueError for a name the
\* pattern does not match (default_value is None, so no value is validated)
NewTemplateVariable(n) ==
    IF ValidVariableName(n)
    THEN [kind |-> "ok", variable |-> TemplateVariable(n)]
    ELSE Raised("ValueError", n)

MaxName == 3

\* an uppercase letter, the underscore, a digit, a lowercase letter, a
\* hyphen and the newline
NameChars == {"A", "_", "1", "a", "-", "\n"}

VariableNames == SeqsUpTo(NameChars, MaxName)

InitVariable ==
    /\ template_groups = <<>> /\ files = <<>>
    /\ tmpl = NoTemplate /\ fres = NoCall
    /\ repo = <<>> /\ bus = <<>> /\ call = NoCall
    /\ svc = Service(<<>>, "main_studio")
    /\ heap = <<>>
    /\ agg = NoAggregate

DoTemplateVariable ==
    /\ Idle
    /\ \E name \in VariableNames :
          call' = [op |-> "TemplateVariable", name |-> name,
                   out |-> NewTemplateVariable(name)]
    /\ UNCHANGED <<template_groups, files, agg, tmpl, fres, repo, bus, svc, heap>>

NextVariable ==
    \/ DoTemplateVariable
    \/ Return

SpecVariable == InitVariable /\ [][NextVariable]_vars

(***************************************************************************)
(* Effective template specification: templates constructed with a parent,  *)
(* then formatted, and matched by _analyze_path as the asset work slot of  *)
(* a mapping                                                               *)
(***************************************************************************)
EffectiveRaws == {<<"/", "{", "A", "}">>, <<"b">>, <<"{", "B", "}">>}

EffectiveKwargs == UNION {[D -> {<<"a">>}] : D \in SUBSET {VarA, VarB}}

EffectivePaths ==
    {<<"/", "a">>, <<"b">>, <<"a">>, <<"/", "a", "/", "b">>, <<"/", "a", "/", "a">>}

\* FolderTemplate(name, template, parent=p, inheritance_mode=m)
NewChildTemplate ==
    /\ Idle
    /\ Len(heap) < MaxObjects
    /\ \E raw \in EffectiveRaws, m \in GroupModes,
          p \in {None} \cup {Some(i) : i \in 1..Len(heap)} :
          heap' = Append(heap, FolderTemplate("t", raw, <<>>, p, m))
    /\ UNCHANGED <<template_groups, files, agg, tmpl, fres, repo, bus, call, svc>>

\* FolderTemplate.format on a template of the heap
DoFormatObject ==
    /\ Idle
    /\ \E id \in 1..Len(heap), kwargs \in EffectiveKwargs :
         \E f \in Format(heap[id], kwargs) :
            call' = [op |-> "format", id |-> id, kwargs |-> kwargs, out |-> f]
    /\ UNCHANGED <<template_groups, files, agg, tmpl, fres, repo, bus, svc, heap>>

\* _analyze_path against a mapping whose asset work slot holds a template
\* of the heap
DoAnalyzeObject ==
    /\ Idle
    /\ \E id \in 1..Len(heap), path \in EffectivePaths :
          call' = [op |-> "analyze", id |-> id, path |-> path,
                   out |-> AnalyzePath(path,
                               SetTemplateForEntity(StudioMapping("src"), "ASSET",
                                                    "WORK", heap[id]))]
    /\ UNCHANGED <<template_groups, files, agg, tmpl, fres, repo, bus, svc, heap>>

NextEffective ==
    \/ NewChildTemplate
    \/ DoFormatObject
    \/ DoAnalyzeObject
    \/ Return

SpecEffective == InitInherit /\ [][NextEffective]_vars

(***************************************************************************)
(* entities.py: FolderTemplate.add_variable, remove_variable and           *)
(* update_variable, and the specification that applies them to one         *)
(* template                                                                *)
(***************************************************************************)
Changed(t, out) == [template |-> t, out |-> out]

\* FolderTemplate.add_variable
AddVariable(t, variable) ==
    IF variable.name \in DOMAIN t.variables
    THEN Changed(t, Raised("ValueError", variable.name))
    ELSE Changed([t EXCEPT !.variables =
                     [n \in DOMAIN @ \cup {variable.name} |->
                         IF n = variable.name THEN variable ELSE @[n]]],
                 [kind |-> "ok"])

\* a remove_variable without the check for use in the template (C23 tells
\* it from RemoveVariable)
RemoveVariableUnguarded(t, variable_name) ==
    IF variable_name \notin DOMAIN t.variables
    THEN Changed(t, Raised("KeyError", variable_name))
    ELSE Changed([t EXCEPT !.variables =
                     [n \in DOMAIN @ \ {variable_name} |-> @[n]]],
                 [kind |-> "ok"])

\* FolderTemplate.remove_variable
RemoveVariable(t, variable_name) ==
    IF variable_name \notin DOMAIN t.variables
    THEN Changed(t, Raised("KeyError", variable_name))
    ELSE IF variable_name \in TemplatePathVariables(t.parsed_template)
    THEN Changed(t, Raised("ValueError", variable_name))
    ELSE Changed([t EXCEPT !.variables =
                     [n \in DOMAIN @ \ {variable_name} |-> @[n]]],
                 [kind |-> "ok"])

\* FolderTemplate.update_variable
UpdateVariable(t, variable) ==
    IF variable.name \notin DOMAIN t.variables
    THEN Changed(t, Raised("KeyError", variable.name))
    ELSE Changed([t EXCEPT !.variables[variable.name] = variable], [kind |-> "ok"])

VarC == <<"C">>

OperationRaws ==
    {<<"/", "a">>, <<"{", "A", "}">>, <<"{", "A", "}", "/", "{", "B", "}">>}

OperationNames == {VarA, VarB, VarC}

\* the variables handed to add_variable and update_variable
OperationVariables ==
    UNION {{TemplateVariable(n), Optional(n), WithDefault(n)} : n \in OperationNames}

\* FolderTemplate(name, template) and FolderTemplate(name, template,
\* variables={...}) with one extra optional variable
InitOperations ==
    /\ template_groups = <<>> /\ files = <<>>
    /\ \E raw \in OperationRaws, variables \in {<<>>, VarC :> Optional(VarC)} :
          tmpl = FolderTemplate("t", raw, variables, None, "NONE")
    /\ fres = NoCall
    /\ repo = <<>> /\ bus = <<>> /\ call = NoCall
    /\ svc = Service(<<>>, "main_studio")
    /\ heap = <<>>
    /\ agg = NoAggregate

DoAddVariable ==
    /\ Idle
    /\ \E variable \in OperationVariables :
          LET r == AddVariable(tmpl, variable)
          IN  /\ tmpl' = r.template
              /\ call' = [op |-> "add_variable", name |-> variable.name, out |-> r.out]
    /\ UNCHANGED <<template_groups, files, agg, fres, repo, bus, svc, heap>>

DoRemoveVariable ==
    /\ Idle
    /\ \E variable_name \in OperationNames :
          LET r == RemoveVariable(tmpl, variable_name)
          IN  /\ tmpl' = r.template
              /\ call' = [op |-> "remove_variable", name |-> variable_name, out |-> r.out]
    /\ UNCHANGED <<template_groups, files, agg, fres, repo, bus, svc, heap>>

DoUpdateVariable ==
    /\ Idle
    /\ \E variable \in OperationVariables :
          LET r == UpdateVariable(tmpl, variable)
          IN  /\ tmpl' = r.template
              /\ call' = [op |-> "update_variable", name |-> variable.name, out |-> r.out]
    /\ UNCHANGED <<template_groups, files, agg, fres, repo, bus, svc, heap>>

NextOperations ==
    \/ DoAddVariable
    \/ DoRemoveVariable
    \/ DoUpdateVariable
    \/ Return

SpecOperations == InitOperations /\ [][NextOperations]_vars

(***************************************************************************)
(* yaml_folder_structure_repository.py: the file of a group as text.       *)
(* A document is written as a sequence of lines (the name, then one entry  *)
(* per template in the order of the sorted keys); the inputs below give    *)
(* every entry the same length, so that positions count entries.           *)
(***************************************************************************)
\* yaml.dump(data, f): the lines of the document
DumpLines(data) ==
    LET names == SortedNames(DOMAIN data.templates)
    IN  <<[key |-> "name", value |-> [name |-> data.name]]>>
        \o [i \in 1..Len(names) |->
               [key |-> names[i], value |-> data.templates[names[i]]]]

\* yaml.safe_load(f): None for an empty file; of two entries with one key
\* the later one is kept
SafeLoad(text) ==
    IF text = <<>> THEN None
    ELSE LET keys == {text[i].key : i \in 2..Len(text)}
             last(k) == CHOOSE i \in 2..Len(text) :
                            /\ text[i].key = k
                            /\ \A j \in 2..Len(text) : text[j].key = k => j <= i
         IN  Some([name |-> text[1].value.name,
                   templates |-> [k \in keys |-> text[last(k)].value]])

\* `open(file_path, 'w')`: the file is created or cut to no content, and
\* the writer's own position is the start of the file
OpenForWriting(fs, name) ==
    [n \in DOMAIN fs \cup {name} |-> IF n = name THEN <<>> ELSE fs[n]]

\* the buffered text reaches the file in one write when the `with` block
\* closes it: the lines replace what the file holds at the writer's
\* position (its start) and leave in place whatever lies beyond them
WriteAtStart(fs, name, lines) ==
    [fs EXCEPT ![name] = lines \o SubSeq(fs[name], Len(lines) + 1, Len(fs[name]))]

\* get_template_group_by_name on the text of the file: None when the file
\* is missing, when it is empty (data is None and data.get raises) and when
\* building the group raises
GetTemplateGroupText(fs, group_name) ==
    IF group_name \notin DOMAIN fs \/ ~SafeLoad(fs[group_name]).some THEN None
    ELSE GetTemplateGroupFile([n \in {group_name} |-> SafeLoad(fs[group_name]).val],
                              group_name)

(***************************************************************************)
(* Writers specification: two callers of one service over the YAML         *)
(* repository, each running create_template or delete_template on the one  *)
(* group; a call is the load and the aggregate's method, then the open of  *)
(* the file, then the write, then the publication of the events            *)
(***************************************************************************)
Writers == {1, 2}

\* raw strings of one length that reference no variable
WriterRaws == {<<"/", "a">>, <<"/", "b">>}

MaxPublished == 2

InFlight == {w \in Writers : call[w] # NoCall}

InitWriters ==
    /\ template_groups = (GroupName :> TemplateGroupDocument(<<>>, TemplateGroupAggregate(TemplateGroup(GroupName))))
    /\ files = (GroupName :> DumpLines(template_groups[GroupName]))
    /\ tmpl = NoTemplate /\ fres = NoCall
    /\ repo = <<>> /\ bus = <<>>
    /\ call = [w \in Writers |-> NoCall]
    /\ svc = Service(<<>>, "main_studio")
    /\ heap = <<>>
    /\ agg = TemplateGroupAggregate(TemplateGroup(GroupName))

\* create_template / delete_template, up to the save: the group is loaded
\* from its file and the aggregate's method runs on the loaded objects
Loaded(w, c, reraised, aggregate, r) ==
    call' = [call EXCEPT ![w] =
        IF ~aggregate.some
        THEN c @@ [step |-> "raised", out |-> Raised("ValueError", c.group_name)]
        ELSE IF r.out.kind # "ok"
        THEN c @@ [step |-> "raised",
                   out |-> IF r.out.kind \in reraised THEN r.out
                           ELSE Raised("RepositoryError", r.out)]
        ELSE c @@ [step |-> "open", out |-> r.out, events |-> r.agg.events,
                   data |-> TemplateGroupDocument(r.heap, r.agg)]]

WriterCreateTemplate(w) ==
    /\ call[w] = NoCall /\ Len(bus) + Cardinality(InFlight) < MaxPublished
    /\ \E template_name \in TemplateNames, template_string \in WriterRaws :
          LET aggregate == GetTemplateGroupText(files, GroupName)
          IN  Loaded(w, [op |-> "create_template", group_name |-> GroupName,
                         template_name |-> template_name],
                     {"ValueError", "InvalidTemplateError"}, aggregate,
                     IF aggregate.some
                     THEN CreateTemplate(aggregate.val.heap, aggregate.val.agg,
                                         template_name, template_string, None, None,
                                         "NONE")
                     ELSE None)
    /\ UNCHANGED <<template_groups, files, tmpl, fres, repo, bus, svc, heap, agg>>

WriterDeleteTemplate(w) ==
    /\ call[w] = NoCall /\ Len(bus) + Cardinality(InFlight) < MaxPublished
    /\ \E template_name \in TemplateNames :
          LET aggregate == GetTemplateGroupText(files, GroupName)
          IN  Loaded(w, [op |-> "delete_template", group_name |-> GroupName,
                         template_name |-> template_name],
                     {"ValueError"}, aggregate,
                     IF aggregate.some
                     THEN DeleteTemplate(aggregate.val.heap, aggregate.val.agg,
                                         template_name)
                     ELSE None)
    /\ UNCHANGED <<template_groups, files, tmpl, fres, repo, bus, svc, heap, agg>>

\* save_template_group, `with open(file_path, 'w') as f`
WriterOpen(w) ==
    /\ call[w] # NoCall /\ call[w].step = "open"
    /\ files' = OpenForWriting(files, call[w].data.name)
    /\ call' = [call EXCEPT ![w].step = "write"]
    /\ UNCHANGED <<template_groups, tmpl, fres, repo, bus, svc, heap, agg>>

\* save_template_group, the end of the `with` block; template_groups keeps
\* the document of the save that returned last
WriterWrite(w) ==
    /\ call[w] # NoCall /\ call[w].step = "write"
    /\ files' = WriteAtStart(files, call[w].data.name, DumpLines(call[w].data))
    /\ template_groups' = [template_groups EXCEPT ![call[w].data.name] = call[w].data]
    /\ call' = [call EXCEPT ![w].step = "publish"]
    /\ UNCHANGED <<tmpl, fres, repo, bus, svc, heap, agg>>

\* the events of the aggregate are published and the call returns
WriterPublish(w) ==
    /\ call[w] # NoCall /\ call[w].step = "publish"
    /\ bus' = PublishAll(bus, call[w].events)
    /\ call' = [call EXCEPT ![w] = NoCall]
    /\ UNCHANGED <<template_groups, files, tmpl, fres, repo, svc, heap, agg>>

\* the call raises to its caller
WriterRaise(w) ==
    /\ call[w] # NoCall /\ call[w].step = "raised"
    /\ call' = [call EXCEPT ![w] = NoCall]
    /\ UNCHANGED <<template_groups, files, tmpl, fres, repo, bus, svc, heap, agg>>

\* the mock event bus is reset between calls
WriterResetMock ==
    /\ InFlight = {} /\ bus # <<>>
    /\ bus' = <<>>
    /\ UNCHANGED <<template_groups, files, tmpl, fres, repo, call, svc, heap, agg>>

NextWriters ==
    \/ \E w \in Writers : WriterCreateTemplate(w)
    \/ \E w \in Writers : WriterDeleteTemplate(w)
    \/ \E w \in Writers : WriterOpen(w)
    \/ \E w \in Writers : WriterWrite(w)
    \/ \E w \in Writers : WriterPublish(w)
    \/ \E w \in Writers : WriterRaise(w)
    \/ WriterResetMock

SpecWriters == InitWriters /\ [][NextWriters]_vars

(***************************************************************************)
(* Event log specification: one aggregate, a TemplateGroupAggregate or a   *)
(* StudioMappingAggregate, whose log may hold several events; every call   *)
(* that touches the log, clear_events included, is recorded                *)
(***************************************************************************)
MaxLog == 2

IsGroupAggregate == "template_group" \in DOMAIN agg

InitLog == InitGroup \/ InitMapping

LogCreateTemplate ==
    /\ Idle /\ IsGroupAggregate /\ Len(agg.events) < MaxLog
    /\ \E name \in TemplateNames, template \in GroupRaws,
          parent_name \in {None, Some("b")} :
          LET r == CreateTemplate(heap, agg, name, template, None, parent_name, "NONE")
          IN  /\ heap' = r.heap
              /\ agg' = r.agg
              /\ call' = [op |-> "create_template", name |-> name, out |-> r.out]
    /\ UNCHANGED <<template_groups, files, tmpl, fres, repo, bus, svc>>

LogUpdateTemplate ==
    /\ Idle /\ IsGroupAggregate /\ Len(agg.events) < MaxLog
    /\ \E name \in TemplateNames, template \in OptionOf(GroupRaws),
          parent_name \in {None, Some("b")} :
          LET r == UpdateTemplate(heap, agg, name, template, None, parent_name, None)
          IN  /\ heap' = r.heap
              /\ agg' = r.agg
              /\ call' = [op |-> "update_template", name |-> name, out |-> r.out]
    /\ UNCHANGED <<template_groups, files, tmpl, fres, repo, bus, svc>>

LogDeleteTemplate ==
    /\ Idle /\ IsGroupAggregate /\ Len(agg.events) < MaxLog
    /\ \E name \in TemplateNames :
          LET r == DeleteTemplate(heap, agg, name)
          IN  /\ heap' = r.heap
              /\ agg' = r.agg
              /\ call' = [op |-> "delete_template", name |-> name, out |-> r.out]
    /\ UNCHANGED <<template_groups, files, tmpl, fres, repo, bus, svc>>

LogSetTemplate ==
    /\ Idle /\ ~IsGroupAggregate /\ Len(agg.events) < MaxLog
    /\ \E e \in {"ASSET", "SEQUENCE"}, d \in {"WORK", "RENDER"},
          t \in MappingTemplates :
          LET r == SetTemplate(agg, e, d, t)
          IN  /\ agg' = r.agg
              /\ call' = [op |-> "set_template", entity_type |-> e,
                          data_type |-> d, out |-> r.out]
    /\ UNCHANGED <<template_groups, files, tmpl, fres, repo, bus, svc, heap>>

LogClearEvents ==
    /\ Idle
    /\ agg' = ClearEvents(agg)
    /\ call' = [op |-> "clear_events", out |-> [kind |-> "ok"]]
    /\ UNCHANGED <<template_groups, files, tmpl, fres, repo, bus, svc, heap>>

NextLog ==
    \/ LogCreateTemplate
    \/ LogUpdateTemplate
    \/ LogDeleteTemplate
    \/ LogSetTemplate
    \/ LogClearEvents
    \/ Return

SpecLog == InitLog /\ [][NextLog]_vars

(***************************************************************************)
(* folder_structure_service.py: create_template, update_template,          *)
(* delete_template and set_mapping_template over a repository that hands   *)
(* back the stored aggregate object and whose save may raise               *)
(***************************************************************************)
\* `self._repository.save_...(aggregate)` raises: the statements after it
\* (publish, clear_events) do not run and the error is raised as
\* RepositoryError; the stored object is the one the method has changed
SaveRaised == Raised("RepositoryError", Raised("OSError", "save"))

\* the ending of create_template, update_template and delete_template
AfterAggregateSaving(groups, mappings, log, r, reraised, save_raises) ==
    IF r.out.kind = "ok" /\ save_raises
    THEN ServiceOutcome(SaveTemplateGroup(groups, r.heap, r.agg), mappings, log,
                        SaveRaised)
    ELSE AfterAggregate(groups, mappings, log, r, reraised)

\* FolderStructureService.set_mapping_template; `mappings` holds the stored
\* StudioMappingAggregate objects
ServiceSetMappingTemplate(groups, mappings, log, studio_name, entity_type, data_type, template_string, save_raises) ==
    IF studio_name \notin DOMAIN mappings
    THEN ServiceOutcome(groups, mappings, log, Raised("ValueError", studio_name))
    ELSE LET template == FolderTemplate(EntityTypeValue[entity_type] \o "_"
                                            \o DataTypeValue[data_type],
                                        template_string, <<>>, None, "NONE")
             r == SetTemplate(mappings[studio_name], entity_type, data_type, template)
             stored == [mappings EXCEPT ![studio_name] = r.agg]
         IN  IF r.out.kind # "ok"
             THEN ServiceOutcome(groups, stored, log,
                                 IF r.out.kind \in {"ValueError", "InvalidTemplateError"}
                                 THEN r.out ELSE Raised("RepositoryError", r.out))
             ELSE IF save_raises
             THEN ServiceOutcome(groups, stored, log, SaveRaised)
             ELSE ServiceOutcome(groups,
                                 [mappings EXCEPT ![studio_name] = ClearEvents(r.agg)],
                                 PublishAll(log, r.agg.events), r.out)

(***************************************************************************)
(* Publication specification: a service over a repository holding one      *)
(* group and one studio mapping, and a mock event bus; every save either   *)
(* returns or raises                                                       *)
(***************************************************************************)
InitPublish ==
    /\ template_groups =
           (GroupName :> [heap |-> <<>>,
                          agg |-> TemplateGroupAggregate(TemplateGroup(GroupName))])
    /\ files = <<>>
    /\ tmpl = NoTemplate /\ fres = NoCall
    /\ repo = ("studio_a" :> StudioMappingAggregate(StudioMapping("studio_a")))
    /\ bus = <<>> /\ call = NoCall
    /\ svc = Service(<<>>, "main_studio")
    /\ heap = <<>>
    /\ agg = NoAggregate

\* the events that the stored aggregates hold
Pending == Len(template_groups[GroupName].agg.events) + Len(repo["studio_a"].events)

PublishCreateTemplate ==
    /\ Idle /\ Len(bus) < MaxBus /\ Pending < MaxLog
    /\ \E template_name \in TemplateNames, save_raises \in BOOLEAN :
          LET a == template_groups[GroupName]
          IN  ServiceCalled([op |-> "create_template", group_name |-> GroupName,
                             template_name |-> template_name,
                             save_raises |-> save_raises, out |-> None],
                  AfterAggregateSaving(template_groups, repo, bus,
                      CreateTemplate(a.heap, a.agg, template_name, <<"{", "A", "}">>,
                                     None, None, "NONE"),
                      {"ValueError", "InvalidTemplateError"}, save_raises))

PublishUpdateTemplate ==
    /\ Idle /\ Len(bus) < MaxBus /\ Pending < MaxLog
    /\ \E template_name \in TemplateNames, template_string \in OptionOf(GroupRaws),
          save_raises \in BOOLEAN :
          LET a == template_groups[GroupName]
          IN  ServiceCalled([op |-> "update_template", group_name |-> GroupName,
                             template_name |-> template_name,
                             save_raises |-> save_raises, out |-> None],
                  AfterAggregateSaving(template_groups, repo, bus,
                      UpdateTemplate(a.heap, a.agg, template_name, template_string,
                                     None, None, None),
                      {"ValueError", "InvalidTemplateError"}, save_raises))

PublishDeleteTemplate ==
    /\ Idle /\ Len(bus) < MaxBus /\ Pending < MaxLog
    /\ \E template_name \in TemplateNames, save_raises \in BOOLEAN :
          LET a == template_groups[GroupName]
          IN  ServiceCalled([op |-> "delete_template", group_name |-> GroupName,
                             template_name |-> template_name,
                             save_raises |-> save_raises, out |-> None],
                  AfterAggregateSaving(template_groups, repo, bus,
                      DeleteTemplate(a.heap, a.agg, template_name),
                      {"ValueError"}, save_raises))

PublishSetMappingTemplate ==
    /\ Idle /\ Len(bus) < MaxBus /\ Pending < MaxLog
    /\ \E studio_name \in {"studio_a", "gone"}, data_type \in {"WORK", "RENDER"},
          save_raises \in BOOLEAN :
          ServiceCalled([op |-> "set_mapping_template", studio_name |-> studio_name,
                         entity_type |-> "ASSET", data_type |-> data_type,
                         save_raises |-> save_raises, out |-> None],
              ServiceSetMappingTemplate(template_groups, repo, bus, studio_name,
                                        "ASSET", data_type, <<"/", "{", "A", "}">>,
                                        save_raises))

NextPublish ==
    \/ PublishCreateTemplate
    \/ PublishUpdateTemplate
    \/ PublishDeleteTemplate
    \/ PublishSetMappingTemplate
    \/ DoResetMock
    \/ Return

SpecPublish == InitPublish /\ [][NextPublish]_vars

(***************************************************************************)
(* Same-studio conversion specification: one studio mapping, and           *)
(* conversions from the studio to itself                                   *)
(***************************************************************************)
\* templates whose variables are the declared defaults, one whose variable
\* takes listed values only, one that declares a required variable it does
\* not reference, and one with a closing brace as literal text
WithinTemplates ==
    {FolderTemplate("t", <<"/", "a", "/", "{", "A", "}">>, <<>>, None, "NONE"),
     FolderTemplate("t", <<"/", "{", "B", "}", "/", "{", "A", "}">>, <<>>, None, "NONE"),
     FolderTemplate("t", <<"/", "b", "/", "{", "A", "}">>, (VarA :> EnumOf(VarA)),
                    None, "NONE"),
     FolderTemplate("t", <<"/", "b", "/", "{", "A", "}">>,
                    (VarB :> TemplateVariable(VarB)), None, "NONE"),
     FolderTemplate("t", <<"/", "a", "/", "{", "A", "}", "}">>, <<>>, None, "NONE")}

WithinPaths ==
    {<<"/", "a", "/", "a">>, <<"/", "b", "/", "a">>, <<"/", "b", "/", "b">>,
     <<"/", "a", "/", "a", "}">>, <<"/", "a">>}

NextWithin ==
    \/ DoSetTemplateForEntity({"ASSET", "SHOT"}, {"WORK", "RENDER"}, WithinTemplates)
    \/ DoConvert(WithinPaths, {"src"})
    \/ Return

SpecWithin == InitAnalyze /\ [][NextWithin]_vars

(***************************************************************************)
(* What the documentation says the operations compute, for comparison      *)
(***************************************************************************)
\* the raw template with every placeholder token replaced by its value
RECURSIVE ClaimedSubstitution(_, _)
ClaimedSubstitution(tokens, args) ==
    IF tokens = <<>> THEN <<>>
    ELSE (IF Head(tokens).token_type = "VARIABLE" THEN args[Head(tokens).content]
          ELSE Head(tokens).content)
         \o ClaimedSubstitution(Tail(tokens), args)

\* the binding, else the default, of every variable the tokens reference
ClaimedBindings(t, kwargs) ==
    [n \in TemplatePathVariables(t.parsed_template) |->
        IF n \in DOMAIN kwargs THEN kwargs[n] ELSE t.variables[n].default_value.val]

\* the positions of the analysis order whose slot is populated and whose
\* synthesized pattern fully matches the path
ClaimedMatches(path, m) ==
    {i \in 1..Len(AnalysisMappings(m)) :
        /\ AnalysisMappings(m)[i].template # None
        /\ MatchTemplate(path, AnalysisMappings(m)[i].template.raw_template).kind = "dict"}

(***************************************************************************)
(* Properties of FolderTemplate.format (SpecFormat)                        *)
(***************************************************************************)
\* C2: format returns the raw template with every {NAME} placeholder
\* replaced by the supplied binding, else by the default; bindings for names
\* the template neither declares nor references change nothing.  Stated for
\* the calls in which every declared required variable and every referenced
\* variable has a binding or a default, and every supplied value is valid.
C2_FormatSubstitutes ==
    fres.op = "format" =>
        LET kwargs == fres.kwargs
            resolved == \A n \in DOMAIN tmpl.variables :
                           (tmpl.variables[n].required
                              \/ n \in TemplatePathVariables(tmpl.parsed_template))
                           => (n \in DOMAIN kwargs \/ tmpl.variables[n].default_value.some)
            valid == \A n \in DOMAIN tmpl.variables \cap DOMAIN kwargs :
                        ValidateValue(tmpl.variables[n], kwargs[n])
        IN  (resolved /\ valid) =>
               fres.out = Ok(ClaimedSubstitution(tmpl.parsed_template,
                                                 ClaimedBindings(tmpl, kwargs)))

\* C3: format fails with VariableResolutionError naming the variable whenever
\* a variable the template needs (a declared required one, or one its
\* placeholders reference) has neither a supplied binding nor a default.
C3_MissingVariableFails ==
    fres.op = "format" =>
        LET needed == {n \in DOMAIN tmpl.variables :
                          /\ tmpl.variables[n].required
                               \/ n \in TemplatePathVariables(tmpl.parsed_template)
                          /\ n \notin DOMAIN fres.kwargs
                          /\ ~tmpl.variables[n].default_value.some}
        IN  needed # {} =>
               /\ fres.out.kind = "VariableResolutionError"
               /\ fres.out.about \in needed

WholeSegments(tokens) ==
    \A i \in 1..Len(tokens) :
        tokens[i].token_type = "VARIABLE" =>
            /\ i > 1 => /\ tokens[i - 1].token_type = "LITERAL"
                        /\ tokens[i - 1].content[Len(tokens[i - 1].content)] = "/"
            /\ i < Len(tokens) => /\ tokens[i + 1].token_type = "LITERAL"
                                  /\ tokens[i + 1].content[1] = "/"

\* no placeholder name occurs twice in the tokens
DistinctPlaceholders(tokens) ==
    \A i, j \in 1..Len(tokens) :
        (tokens[i].token_type = "VARIABLE" /\ tokens[j].token_type = "VARIABLE"
            /\ tokens[i].content = tokens[j].content) => i = j

\* no literal token holds a brace
BraceFree(tokens) ==
    \A i \in 1..Len(tokens) :
        tokens[i].token_type = "LITERAL" =>
            \A k \in 1..Len(tokens[i].content) : tokens[i].content[k] \notin {"{", "}"}

\* a non-empty string without a separator
PlainValue(v) == v # <<>> /\ \A k \in 1..Len(v) : v[k] # "/"

\* the case of the amended round trip: the template references at least one
\* variable, none twice, each as a whole path segment, and its literal text
\* holds no brace; every value used is a
\* non-empty string without '/'; and every populated slot that analysis
\* tries before the template's has distinct placeholders and does not match
RoundTripCase ==
    /\ call.op = "analyze" /\ call.formatted.some
    /\ LET t == repo[call.studio].slots[call.formatted.val.field]
           used == ClaimedBindings(t, call.formatted.val.kwargs)
           entries == AnalysisMappings(repo[call.studio])
           first == Min({i \in 1..Len(entries) : entries[i].template = t})
       IN  /\ DOMAIN used # {}
           /\ DistinctPlaceholders(t.parsed_template)
           /\ WholeSegments(t.parsed_template)
           /\ BraceFree(t.parsed_template)
           /\ \A n \in DOMAIN used : PlainValue(used[n])
           /\ \A j \in 1..(first - 1) :
                 entries[j].template # None =>
                    MatchTemplate(call.path, entries[j].template.raw_template).kind = "None"

C4_FirstMatchWins ==
    call.op = "analyze" =>
        LET m == repo[call.studio]
            hits == ClaimedMatches(call.path, m)
        IN  hits # {} =>
               LET e == AnalysisMappings(m)[Min(hits)]
               IN  call.out =
                     [kind |-> "match", entity_type |-> e.entity_type,
                      data_type |-> e.data_type,
                      variables |-> MatchTemplate(call.path,
                                                  e.template.raw_template).groupdict]

\* C5: analysis never raises; it returns a match or None.
C5_AnalysisNeverRaises ==
    call.op = "analyze" => call.out.kind \in {"match", "None"}

(***************************************************************************)
(* Properties of convert_path_between_studios (SpecConvert)                *)
(***************************************************************************)
\* C6: when the path matches a slot of the source mapping and the target
\* mapping has a template in the same slot whose variables were all
\* recovered (with values the template accepts), the call returns the target
\* template formatted with the recovered variables.
C6_ConvertFormatsTarget ==
    (/\ call.op = "convert"
     /\ call.source_studio \in DOMAIN repo
     /\ call.target_studio \in DOMAIN repo) =>
        LET source == repo[call.source_studio]
            hits == ClaimedMatches(call.path, source)
        IN  hits # {} =>
               LET e == AnalysisMappings(source)[Min(hits)]
                   recovered == MatchTemplate(call.path, e.template.raw_template).groupdict
                   target == GetTemplateForEntity(repo[call.target_studio],
                                                  e.entity_type, e.data_type)
               IN  (/\ target # None
                    /\ DOMAIN target.variables \subseteq DOMAIN recovered
                    /\ \A n \in DOMAIN target.variables :
                          ValidateValue(target.variables[n], recovered[n])) =>
                      call.out = Ok(ClaimedSubstitution(target.parsed_template, recovered))

\* the three failure cases of a conversion c between two known studios of r
ConvertNoMatch(c, r) == ClaimedMatches(c.path, r[c.source_studio]) = {}

ConvertNoTargetTemplate(c, r) ==
    LET path_info == AnalyzePath(c.path, r[c.source_studio])
    IN  /\ path_info.kind = "match"
        /\ GetTemplateForEntity(r[c.target_studio], path_info.entity_type,
                                path_info.data_type) = None

ConvertMissingVariable(c, r) ==
    LET path_info == AnalyzePath(c.path, r[c.source_studio])
    IN  /\ path_info.kind = "match"
        /\ LET target == GetTemplateForEntity(r[c.target_studio], path_info.entity_type,
                                              path_info.data_type)
           IN  /\ target # None
               /\ \E n \in DOMAIN target.variables :
                     /\ target.variables[n].required
                     /\ ~target.variables[n].default_value.some
                     /\ n \notin DOMAIN path_info.variables

ConvertFailureCase(c, r) ==
    /\ c.op = "convert"
    /\ c.source_studio \in DOMAIN r /\ c.target_studio \in DOMAIN r
    /\ \/ ConvertNoMatch(c, r)
       \/ ConvertNoTargetTemplate(c, r)
       \/ ConvertMissingVariable(c, r)

\* C7: a conversion between two known studios fails with PathResolutionError
\* and publishes nothing when no slot of the source matches the path, when
\* the target has no template for the recovered slot, and when the target
\* template requires a variable that was not recovered.
C7_ConvertFailures ==
    [][(call.op = "none" /\ ConvertFailureCase(call', repo)) =>
          (call'.out.kind = "PathResolutionError" /\ bus' = bus)]_vars

\* a conversion whose target template requires B, which the source path did
\* not yield
C7_Witness ==
    /\ call.op = "convert"
    /\ call.source_studio = "src" /\ call.target_studio = "tgt"
    /\ ConvertMissingVariable(call, repo)
    /\ call.out.kind = "PathResolutionError"
    /\ bus = <<>>

(***************************************************************************)
(* Properties of get_path (SpecResolve)                                    *)
(***************************************************************************)
\* the studio a get_path call c resolves against
ResolvedStudio(c) ==
    IF c.studio_name.some /\ c.studio_name.val # "" THEN c.studio_name.val
    ELSE svc.studio_name

\* C8: every get_path call either returns the formatted path and publishes
\* exactly one PathResolved event carrying that path and the bindings it was
\* formatted with, or raises PathResolutionError and publishes nothing; no
\* other exception escapes.
C8_GetPathOutcomes ==
    [][(call.op = "none" /\ call'.op = "get_path") =>
          \/ /\ call'.out.kind = "ok"
             /\ Len(bus') = Len(bus) + 1
             /\ SubSeq(bus', 1, Len(bus)) = bus
             /\ LET event == bus'[Len(bus')]
                    template == RepoGetTemplateForEntity(repo, ResolvedStudio(call'),
                                                         call'.entity_type, call'.data_type)
                IN  /\ event.type = "PathResolved"
                    /\ event.resolved_path = call'.out.path
                    /\ \A n \in DOMAIN call'.kwargs :
                          n \in DOMAIN event.context /\ event.context[n] = call'.kwargs[n]
                    /\ template # None
                    /\ Ok(event.resolved_path) \in Format(template, event.context)
          \/ /\ call'.out.kind = "PathResolutionError"
             /\ bus' = bus]_vars

\* a resolved call and the one event it published
C8_Witness ==
    /\ call.op = "get_path"
    /\ call.out.kind = "ok"
    /\ Len(bus) = 1
    /\ bus[1].type = "PathResolved"
    /\ bus[1].resolved_path = call.out.path
    /\ PROJECT \in DOMAIN call.kwargs

\* C9: for a slot template with the placeholders PROJECT and ASSET_NAME,
\* get_path with entity_name and PROJECT, without ASSET_NAME, returns the
\* path with entity_name in the ASSET_NAME position.
C9_EntityNameFillsAssetName ==
    (/\ call.op = "get_path"
     /\ PROJECT \in DOMAIN call.kwargs
     /\ ASSET_NAME \notin DOMAIN call.kwargs
     /\ RepoGetTemplateForEntity(repo, ResolvedStudio(call), call.entity_type,
                                 call.data_type)
          = FolderTemplate("t", <<"/">> \o Placeholder(PROJECT) \o <<"/">>
                                   \o Placeholder(ASSET_NAME), <<>>, None, "NONE")) =>
        call.out = Ok(<<"/">> \o call.kwargs[PROJECT] \o <<"/">> \o call.entity_name)

(***************************************************************************)
(* Properties of get_effective_template (SpecInherit)                      *)
(***************************************************************************)
\* the join of the documentation: one separator, a duplicate one trimmed
RECURSIVE StripTrailing(_)
StripTrailing(s) ==
    IF s # <<>> /\ s[Len(s)] = "/" THEN StripTrailing(SubSeq(s, 1, Len(s) - 1)) ELSE s

RECURSIVE StripLeading(_)
StripLeading(s) ==
    IF s # <<>> /\ s[1] = "/" THEN StripLeading(Tail(s)) ELSE s

\* the call in progress is get_effective_template on a template in mode
\* EXTEND with a parent
ExtendCall ==
    /\ call.op = "get_effective_template"
    /\ heap[call.id].parent.some
    /\ heap[call.id].inheritance_mode = "EXTEND"

\* C10 as stated: without a parent, and in the modes NONE and OVERRIDE, the
\* raw string; in mode EXTEND the parent's effective string, one '/', and
\* the raw string, a duplicate separator at the join trimmed.
C10_EffectiveTemplateTrimmed ==
    call.op = "get_effective_template" =>
        IF ExtendCall
        THEN call.out =
               Ok(StripTrailing(GetEffectiveTemplate(heap, heap[call.id].parent.val).path)
                  \o <<"/">> \o StripLeading(heap[call.id].raw_template))
        ELSE call.out = Ok(heap[call.id].raw_template)

\* C10 as amended: in mode EXTEND the parent's effective string, one '/',
\* and the raw string, nothing trimmed.
C10_EffectiveTemplateAmended ==
    call.op = "get_effective_template" =>
        IF ExtendCall
        THEN call.out =
               Ok(GetEffectiveTemplate(heap, heap[call.id].parent.val).path
                  \o <<"/">> \o heap[call.id].raw_template)
        ELSE call.out = Ok(heap[call.id].raw_template)

\* a chain of two EXTEND steps whose joins both double the separator
C10_Witness ==
    /\ ExtendCall
    /\ heap[heap[call.id].parent.val].parent.some
    /\ heap[heap[call.id].parent.val].inheritance_mode = "EXTEND"
    /\ call.out = Ok(<<"{", "A", "}", "/", "/", "{", "A", "}", "/", "/", "/", "a">>)

(***************************************************************************)
(* Properties of TemplateGroupAggregate (SpecGroup)                        *)
(***************************************************************************)
\* the template objects of the group, by name
Member(n) == heap[agg.template_group.templates[n]]

Members == DOMAIN agg.template_group.templates

\* C11: after any sequence of create_template and update_template calls (and
\* any other call of the aggregate), get_effective_template returns on every
\* template of the group: no parent chain leads back into itself.
C11_InheritanceTerminates ==
    \A n \in Members :
        GetEffectiveTemplate(heap, agg.template_group.templates[n]).kind = "ok"

\* the templates of the group that have template n as parent
ChildrenOf(n) ==
    {c \in Members : Member(c).parent = Some(agg.template_group.templates[n])}

C13_NoPartialWrites ==
    [][(call.op = "none" /\ call'.op = "update_template" /\ call'.out.kind # "ok") =>
        (heap' = heap /\ agg' = agg)
      ]_vars

\* an update_template call of a template of the group that names no unknown
\* parent and changes the raw string to one referencing undeclared names
NewNameCase(c, names) ==
    /\ c.op = "update_template"
    /\ c.name \in Members
    /\ ~(Truthy(c.parent_name) /\ c.parent_name.val \notin Members)
    /\ c.template.some
    /\ names = TemplatePathVariables(ParseTemplate(c.template.val))
                  \ DOMAIN Member(c.name).variables
    /\ names # {}

\* C14: an update_template that changes the raw string to one referencing
\* names that were not declared succeeds and leaves each new name declared,
\* with the defaults of TemplateVariable unless the call supplied it; also
\* when the call supplies no variables.
C14_NewNamesDeclared ==
    [][\A names \in SUBSET {VarA, VarB} :
        (call.op = "none" /\ NewNameCase(call', names)) =>
            /\ call'.out.kind = "ok"
            /\ \A n \in names :
                  LET declared == heap'[agg'.template_group.templates[call'.name]].variables
                  IN  /\ n \in DOMAIN declared
                      /\ declared[n] =
                            IF call'.variables.some /\ n \in DOMAIN call'.variables.val
                            THEN call'.variables.val[n] ELSE TemplateVariable(n)
      ]_vars

(***************************************************************************)
(* Properties of StudioMapping and StudioMappingAggregate                  *)
(* (SpecMapping, SpecMappingAggregate)                                     *)
(***************************************************************************)
\* C15: set_template_for_entity(e, d, t) leaves get_template_for_entity(e2,
\* d2) as it was for every pair (e2, d2) other than (e, d).
C15_SlotIndependence ==
    [][(call.op = "none" /\ call'.op = "set_template_for_entity") =>
        \A e2 \in EntityType, d2 \in DataType :
            <<e2, d2>> # <<call'.entity_type, call'.data_type>> =>
                GetTemplateForEntity(agg'.studio_mapping, e2, d2)
                    = GetTemplateForEntity(agg.studio_mapping, e2, d2)
      ]_vars

\* C16: for every entity type and every data type, after
\* set_template_for_entity(e, d, t), get_template_for_entity(e, d) returns t.
C16_SetThenGet ==
    call.op = "set_template_for_entity" =>
        GetTemplateForEntity(agg.studio_mapping, call.entity_type, call.data_type)
            = call.template

\* C17: StudioMappingAggregate.set_template with a template that references
\* an undeclared variable raises InvalidTemplateError, leaves every slot as
\* it was and records no event.
C17_SetTemplateRevalidates ==
    [][(call.op = "none" /\ call'.op = "set_template"
            /\ TemplatePathVariables(call'.template.parsed_template)
                   \ DOMAIN call'.template.variables # {}) =>
        /\ call'.out.kind = "InvalidTemplateError"
        /\ agg'.studio_mapping = agg.studio_mapping
        /\ agg'.events = agg.events
      ]_vars

\* an invalid template refused by a mapping that has a populated slot
C17_Witness ==
    /\ call.op = "set_template"
    /\ call.template = InvalidTemplate
    /\ call.out.kind = "InvalidTemplateError"
    /\ agg.studio_mapping.slots["asset_work_path"] = ValidTemplate

\* the number of entries of the validation list that name slot f
FailuresNaming(errors, f) == Cardinality({i \in 1..Len(errors) : errors[i].name = f})

\* the number of failures the documentation gives slot f
ClaimedFailures(m, f) ==
    (IF f \in {"asset_published_path", "asset_work_path", "shot_published_path",
               "shot_work_path"} /\ m.slots[f] = None THEN 1 ELSE 0)
    + (IF m.slots[f] # None
          /\ TemplatePathVariables(m.slots[f].parsed_template)
                 \ DOMAIN m.slots[f].variables # {}
       THEN 1 ELSE 0)

\* C18: StudioMapping.validate returns one failure for each unset mandatory
\* slot and one for each populated slot with an invalid template, and
\* nothing else; the aggregate's validate raises exactly when that list is
\* not empty.
C18_MappingCompleteness ==
    /\ call.op = "validate" =>
          /\ \A i \in 1..Len(call.out) : call.out[i].name \in SlotFields
          /\ \A f \in SlotFields :
                FailuresNaming(call.out, f) = ClaimedFailures(agg.studio_mapping, f)
    /\ call.op = "aggregate_validate" =>
          (call.out.kind = "ok" <=>
              \A f \in SlotFields : ClaimedFailures(agg.studio_mapping, f) = 0)

\* only asset_work_path is set, and validate reported three failures
C18_Witness ==
    /\ call.op = "validate"
    /\ \A f \in SlotFields :
          (agg.studio_mapping.slots[f] # None) <=> (f = "asset_work_path")
    /\ Len(call.out) = 3

(***************************************************************************)
(* Properties of the service's template group and studio mapping methods   *)
(* (SpecService)                                                           *)
(***************************************************************************)
\* the call `c` names a group or a mapping that exists already (for the two
\* create methods) or a template its existing group does not hold (for
\* update_template and delete_template)
PreconditionFails(c) ==
    \/ c.op = "create_template_group" /\ c.name \in DOMAIN template_groups
    \/ c.op = "create_studio_mapping" /\ c.name \in DOMAIN repo
    \/ /\ c.op \in {"update_template", "delete_template"}
       /\ c.group_name \in DOMAIN template_groups
       /\ c.template_name \notin
              DOMAIN template_groups[c.group_name].agg.template_group.templates

\* C19: create_template_group and create_studio_mapping with a name that
\* exists already, and update_template and delete_template naming a template
\* that an existing group does not hold, each raise ValueError, leave the
\* repository's contents as they were and publish no event.
C19_PreconditionFailures ==
    [][(Idle /\ call' # NoCall /\ PreconditionFails(call'))
          => /\ call'.out.kind = "ValueError"
             /\ template_groups' = template_groups
             /\ repo' = repo
             /\ bus' = bus]_vars

(***************************************************************************)
(* Properties of the YAML repository (SpecYaml)                            *)
(***************************************************************************)
\* the file of the group holds the group as it is now
SavedAsIs ==
    /\ GroupName \in DOMAIN files
    /\ files[GroupName] = TemplateGroupDocument(heap, agg)

\* the group has templates and each of them references a variable
ReferencesVariables ==
    /\ Members # {}
    /\ \A n \in Members : TemplatePathVariables(Member(n).parsed_template) # {}

ParentNameOf(h, id) ==
    IF h[id].parent.some THEN Some(h[h[id].parent.val].name) ELSE None

\* the raw string, the declared variables, the parent's name, the
\* inheritance mode and the effective template of two templates agree
SameTemplate(h1, id1, h2, id2) ==
    /\ h1[id1].raw_template = h2[id2].raw_template
    /\ h1[id1].variables = h2[id2].variables
    /\ ParentNameOf(h1, id1) = ParentNameOf(h2, id2)
    /\ h1[id1].inheritance_mode = h2[id2].inheritance_mode
    /\ GetEffectiveTemplate(h1, id1) = GetEffectiveTemplate(h2, id2)

\* C20: for a saved group whose templates reference variables,
\* get_template_group_by_name returns a group with the same template names,
\* raw strings and declared variables, and with each template's parent name,
\* inheritance mode and effective template as they were when it was saved.
C20_PersistenceRoundTrip ==
    (call.op = "get_template_group_by_name" /\ SavedAsIs /\ ReferencesVariables)
        => /\ call.out.some
           /\ LET loaded == call.out.val
                  templates == loaded.agg.template_group.templates
              IN  /\ DOMAIN templates = Members
                  /\ \A n \in Members :
                        SameTemplate(heap, agg.template_group.templates[n],
                                     loaded.heap, templates[n])

(***************************************************************************)
(* Properties of TemplateVariable (SpecVariable)                           *)
(***************************************************************************)
\* the whole of `n` is an uppercase letter followed by uppercase letters,
\* digits and underscores
MatchesDocumentedPattern(n) ==
    /\ Len(n) >= 1
    /\ n[1] \in UpperCase
    /\ \A k \in 2..Len(n) : n[k] \in UpperCase \cup Digits \cup {"_"}

\* C21: constructing a Variable succeeds exactly when its name matches
\* ^[A-Z][A-Z0-9_]*$; with any other name it is rejected with a value error.
C21_VariableNamePattern ==
    call.op = "TemplateVariable"
        => /\ MatchesDocumentedPattern(call.name) => call.out.kind = "ok"
           /\ ~MatchesDocumentedPattern(call.name) => call.out.kind = "ValueError"

(***************************************************************************)
(* Properties of formatting and matching under inheritance (SpecEffective) *)
(***************************************************************************)
\* the call in progress is on a template in mode EXTEND with a parent
OnExtendingTemplate ==
    /\ call.op \in {"format", "analyze"}
    /\ heap[call.id].parent.some
    /\ heap[call.id].inheritance_mode = "EXTEND"

EffectiveOf(id) == GetEffectiveTemplate(heap, id).path

\* C22: for a template with a parent and mode EXTEND, format returns the
\* bindings substituted into get_effective_template() (stated for the calls
\* that bind every variable the effective string references), and
\* _analyze_path matches a path exactly when the pattern synthesized from the
\* effective string matches it, returning the bindings that pattern captures.
C22_EffectiveTemplateUsed ==
    OnExtendingTemplate =>
        LET effective == EffectiveOf(call.id)
        IN  /\ (/\ call.op = "format"
                /\ TemplatePathVariables(ParseTemplate(effective)) \subseteq DOMAIN call.kwargs)
                  => call.out = Ok(ClaimedSubstitution(ParseTemplate(effective), call.kwargs))
            /\ call.op = "analyze"
                  => LET m == MatchTemplate(call.path, effective)
                     IN  IF m.kind = "dict" /\ DOMAIN m.groupdict # {}
                         THEN /\ call.out.kind = "match"
                              /\ call.out.variables = m.groupdict
                         ELSE call.out.kind = "None"

(***************************************************************************)
(* Properties of the variable operations of FolderTemplate                 *)
(* (SpecOperations)                                                        *)
(***************************************************************************)
\* C23: after construction and after every add_variable, remove_variable and
\* update_variable call, every variable the tokens reference is declared
\* (validate() succeeds); remove_variable of a name the tokens reference is
\* rejected and leaves the variables as they were.
C23_ValidityPreserved ==
    /\ TemplateValid(tmpl)
    /\ [][/\ TemplateValid(tmpl')
          /\ (/\ Idle
              /\ call'.op = "remove_variable"
              /\ call'.name \in TemplatePathVariables(tmpl.parsed_template))
                => /\ call'.out.kind = "ValueError"
                   /\ tmpl'.variables = tmpl.variables]_vars

\* remove_variable of a referenced variable has been rejected, next to a
\* declared variable that the tokens do not reference
C23_Witness ==
    /\ call.op = "remove_variable"
    /\ call.out.kind = "ValueError"
    /\ call.name \in TemplatePathVariables(tmpl.parsed_template)
    /\ DOMAIN tmpl.variables # TemplatePathVariables(tmpl.parsed_template)

(***************************************************************************)
(* C24: the store is last-writer-wins.  Whenever no save is under way      *)
(* (every writer that opened the file has written it), the text of the     *)
(* group's file is exactly the document of the save that returned last,    *)
(* whatever the interleaving of the writers' loads, opens and writes; in   *)
(* particular it never holds entries of two writers' documents.            *)
(***************************************************************************)
Saving == {w \in Writers : call[w] # NoCall /\ call[w].step = "write"}

C24_LastWriterWins ==
    Saving = {} => files[GroupName] = DumpLines(template_groups[GroupName])

(***************************************************************************)
(* C25: the event log of an aggregate is the sequence of its successful    *)
(* mutations since the last clear.  A create_template, update_template,    *)
(* delete_template or set_template call that returns appends exactly one   *)
(* event, of the call's type and naming the group and the template (the    *)
(* studio and the slot), at the end of the log; a call that raises leaves  *)
(* the log as it was; clear_events leaves it empty; nothing else changes   *)
(* it.                                                                     *)
(***************************************************************************)
EventOf(c, a) ==
    CASE c.op = "create_template" -> TemplateCreated(a.template_group.name, c.name)
      [] c.op = "update_template" -> TemplateUpdated(a.template_group.name, c.name)
      [] c.op = "delete_template" -> TemplateDeleted(a.template_group.name, c.name)
      [] c.op = "set_template" ->
             MappingTemplateSet(a.studio_mapping.name, EntityTypeValue[c.entity_type],
                                DataTypeValue[c.data_type])

PublishedBy(c) ==
    CASE c.op = "create_template" -> TemplateCreated(c.group_name, c.template_name)
      [] c.op = "update_template" -> TemplateUpdated(c.group_name, c.template_name)
      [] c.op = "delete_template" -> TemplateDeleted(c.group_name, c.template_name)
      [] c.op = "set_mapping_template" ->
             MappingTemplateSet(c.studio_name, EntityTypeValue[c.entity_type],
                                DataTypeValue[c.data_type])

C26_PublishedOnce ==
    [][(Idle /\ call' # NoCall) =>
          bus' = IF call'.out.kind = "ok" THEN Append(bus, PublishedBy(call'))
                 ELSE bus]_vars

(***************************************************************************)
(* C27: a populated slot whose template has no placeholder is matched by   *)
(* the path equal to its text.  When no earlier slot matches the path,     *)
(* _analyze_path returns that slot's (entity_type, data_type) with no      *)
(* bindings, and convert_path_between_studios goes on with that result     *)
(* instead of failing to analyze the path.                                 *)
(***************************************************************************)
LiteralSlots(path, m) ==
    LET entries == AnalysisMappings(m)
    IN  {i \in 1..Len(entries) :
            /\ entries[i].template # None
            /\ TemplatePathVariables(entries[i].template.parsed_template) = {}
            /\ entries[i].template.raw_template = path
            /\ \A j \in 1..(i - 1) :
                  \/ entries[j].template = None
                  \/ MatchTemplate(path, entries[j].template.raw_template).kind = "None"}

C27_LiteralSlotMatches ==
    (/\ call.op = "convert"
     /\ call.source_studio \in DOMAIN repo
     /\ call.target_studio \in DOMAIN repo) =>
        LET source == repo[call.source_studio]
        IN  \A i \in LiteralSlots(call.path, source) :
               /\ AnalyzePath(call.path, source) =
                     [kind |-> "match",
                      entity_type |-> AnalysisMappings(source)[i].entity_type,
                      data_type |-> AnalysisMappings(source)[i].data_type,
                      variables |-> <<>>]
               /\ call.out # Failed("PathResolutionError", "cannot analyze")

(***************************************************************************)
(* C28: validity implies formattability.  For a template on which          *)
(* validate() succeeds, a format call that binds every declared variable   *)
(* to a valid value returns a path, and that path is the tokens of the     *)
(* template in order, each literal token verbatim (brace-delimited text    *)
(* that is no placeholder included) and each placeholder replaced by its   *)
(* binding.                                                                *)
(***************************************************************************)
BindsEveryVariable(t, kwargs) ==
    /\ DOMAIN t.variables \subseteq DOMAIN kwargs
    /\ \A n \in DOMAIN t.variables : ValidateValue(t.variables[n], kwargs[n])

C28_ValidFormats ==
    (/\ fres.op = "format"
     /\ TemplateValid(tmpl)
     /\ BindsEveryVariable(tmpl, fres.kwargs)) =>
        fres.out = Ok(ClaimedSubstitution(tmpl.parsed_template, fres.kwargs))

(***************************************************************************)
(* C29: converting within one studio is the identity.  For every mapping   *)
(* of the repository and every path that _analyze_path matches against     *)
(* it, convert_path_between_studios with that studio as source and as      *)
(* target returns the path itself.                                         *)
(***************************************************************************)
C29_ConvertWithinStudio ==
    (/\ call.op = "convert"
     /\ call.source_studio \in DOMAIN repo
     /\ call.target_studio = call.source_studio
     /\ AnalyzePath(call.path, repo[call.source_studio]).kind = "match") =>
        call.out = Ok(call.path)

(***************************************************************************)
(* C30: parent references never dangle.  After any sequence of             *)
(* create_template, update_template and delete_template calls, returned    *)
(* or raised, every template of the group that has a parent has as parent  *)
(* the very object that the group stores under the parent's name.          *)
(***************************************************************************)
C30_ParentsStored ==
    \A n \in Members :
        Member(n).parent.some =>
            LET p == Member(n).parent.val
            IN  /\ heap[p].name \in Members
                /\ agg.template_group.templates[heap[p].name] = p

\* two templates that are each other's parent, after a refused delete
C30_Witness ==
    /\ call.op = "delete_template" /\ call.out.kind = "ValueError"
    /\ call.name = "b"
    /\ Members = {"a", "b"}
    /\ Member("a").parent = Some(agg.template_group.templates["b"])
    /\ Member("b").parent = Some(agg.template_group.templates["a"])

=============================================================================
